---------------------------- MODULE Spec2Model ----------------------------
(***************************************************************************)
(* Chart geometry engine of the pump application: the segmenter            *)
(* (createSegments), the domain calculator (calculateDomain), the scale    *)
(* builder's domain adjustment (createScales) and the evenly spaced step   *)
(* calculator (calculateEvenlySpacedSteps).                                *)
(*                                                                         *)
(* JavaScript numbers are modelled as exact extended rationals: a record   *)
(* [n, d] with d > 0 is the rational n/d in lowest terms; d = 0 encodes    *)
(* the non-finite doubles: [1,0] = Infinity, [-1,0] = -Infinity and        *)
(* [0,0] = NaN.  Rounding error of binary floating point and the sign of   *)
(* zero are not modelled.                                                  *)
(***************************************************************************)
EXTENDS Integers, Sequences, FiniteSets, TLC

\* the operation called last, its arguments and what it returned
VARIABLES fn, args, ret

\* the ticker store: the state object of the zustand store, the module's
\* globalUpdateInterval, and the intervals the runtime has running
VARIABLES store, globalUpdateInterval, intervals

\* useScrollState: its four refs, the timeouts the runtime has pending, the
\* phase of the list's scroll gesture and the callbacks invoked so far
VARIABLES pauseTimeoutRef, resumeTimeoutRef, isScrollingRef, hasPausedRef, timeouts, gesture, scrollCalls

\* useAppFocus: its two refs, AppState.currentState, whether the screen has
\* navigation focus, and the callbacks invoked so far
VARIABLES isFocusedRef, appStateRef, currentState, navFocused, focusCalls

\* Screen: the store fields its committed render has read
VARIABLES rendered

storeVars == <<store, globalUpdateInterval, intervals>>

scrollVars == <<pauseTimeoutRef, resumeTimeoutRef, isScrollingRef, hasPausedRef, timeouts, gesture, scrollCalls>>

focusVars == <<isFocusedRef, appStateRef, currentState, navFocused, focusCalls>>

stateVars == <<storeVars, scrollVars, focusVars, rendered>>

vars == <<fn, args, ret, stateVars>>

----------------------------------------------------------------------------
(* The stateful parts as they are constructed *)

\* a ref or variable that holds no timer: null
NoTimer == 0

\* create<TickerStore>((set, get) => ({ tickerData: {}, isInitialized: false,
\* isPaused: false, pauseReasons: new Set(), ... }));
\* let globalUpdateInterval = null
InitTickerStore ==
  /\ store = [tickerData |-> [t \in {} |-> t], isInitialized |-> FALSE,
              isPaused |-> FALSE, pauseReasons |-> {}]
  /\ globalUpdateInterval = NoTimer
  /\ intervals = {}

\* useRef(null), useRef(null), useRef(false), useRef(false); no timeout is
\* pending, the list is at rest
InitScrollState ==
  /\ pauseTimeoutRef = NoTimer
  /\ resumeTimeoutRef = NoTimer
  /\ isScrollingRef = FALSE
  /\ hasPausedRef = FALSE
  /\ timeouts = {}
  /\ gesture = "idle"
  /\ scrollCalls = <<>>

\* useRef(true), useRef(AppState.currentState), mounted in the foreground on
\* the focused screen
InitAppFocus ==
  /\ isFocusedRef = TRUE
  /\ appStateRef = "active"
  /\ currentState = "active"
  /\ navFocused = TRUE
  /\ focusCalls = <<>>

\* the first render of Screen reads the store as constructed
InitScreen == rendered = [isInitialized |-> FALSE, isPaused |-> FALSE]

Constructed == InitTickerStore /\ InitScrollState /\ InitAppFocus /\ InitScreen

----------------------------------------------------------------------------
(* Bounds of the explored inputs *)

\* longest point sequence handed to createSegments
MaxLen == 3
\* timestamps are drawn from 0..MaxTime
MaxTime == 1
\* point values are drawn from -MaxVal..MaxVal
MaxVal == 2
\* minValue and maxValue are drawn from the multiples of 1/ValueDen in
\* -MaxDom..MaxDom
MaxDom == 6
ValueDen == 2
\* tick counts are drawn from 0..MaxCount
MaxCount == 4
\* longest point sequence handed to createLinePath and createAreaPath
MaxPathLen == 2
\* most series handed to useSeriesData
MaxSeries == 2
\* most sub-paths handed to the reduce that combines them
MaxSubPaths == 4
\* onScrollStart calls made and pause timeouts pending, together, at which the
\* list takes no further drag
MaxScrollStarts == 3
\* focus callbacks invoked at which the app takes no further focus event
MaxFocusCalls == 16

----------------------------------------------------------------------------
(* Number arithmetic: the operators of JavaScript's number type *)

IntAbs(i) == IF i < 0 THEN -i ELSE i

IntSign(i) == IF i < 0 THEN -1 ELSE IF i > 0 THEN 1 ELSE 0

RECURSIVE GCD(_, _)
GCD(a, b) == IF b = 0 THEN a ELSE GCD(b, a % b)

\* the number n/d, in the canonical form described above
Norm(n, d) ==
  IF d = 0 THEN [n |-> IntSign(n), d |-> 0]
  ELSE LET g == GCD(IntAbs(n), IntAbs(d))
           s == IF d < 0 THEN -1 ELSE 1
       IN [n |-> (s * n) \div g, d |-> (s * d) \div g]

Num(i) == [n |-> i, d |-> 1]

Zero == Num(0)

NaN == [n |-> 0, d |-> 0]

Infinity == [n |-> 1, d |-> 0]

IsNaN(x) == x.d = 0 /\ x.n = 0

IsFinite(x) == x.d # 0

Neg(x) == [n |-> -x.n, d |-> x.d]

Add(x, y) ==
  IF x.d = 0 /\ y.d = 0 THEN (IF x.n = y.n THEN x ELSE NaN)
  ELSE IF x.d = 0 THEN x
  ELSE IF y.d = 0 THEN y
  ELSE Norm(x.n * y.d + y.n * x.d, x.d * y.d)

Sub(x, y) == Add(x, Neg(y))

Mul(x, y) == Norm(x.n * y.n, x.d * y.d)

Inv(y) == Norm(y.d, y.n)

Div(x, y) == Mul(x, Inv(y))

\* x < y and x <= y; every comparison with NaN is false
Lt(x, y) ==
  IF IsNaN(x) \/ IsNaN(y) \/ x = y THEN FALSE
  ELSE IF x.d = 0 THEN x.n < 0
  ELSE IF y.d = 0 THEN y.n > 0
  ELSE x.n * y.d < y.n * x.d

Leq(x, y) == ~IsNaN(x) /\ ~IsNaN(y) /\ (x = y \/ Lt(x, y))

Geq(x, y) == Leq(y, x)

Gt(x, y) == Lt(y, x)

MathAbs(x) == [n |-> IntAbs(x.n), d |-> x.d]

MathFloor(x) == IF x.d = 0 THEN x ELSE Num(x.n \div x.d)

MathCeil(x) == Neg(MathFloor(Neg(x)))

MathMin(x, y) == IF IsNaN(x) \/ IsNaN(y) THEN NaN ELSE IF Lt(y, x) THEN y ELSE x

MathMax(x, y) == IF IsNaN(x) \/ IsNaN(y) THEN NaN ELSE IF Lt(x, y) THEN y ELSE x

\* Math.round: the nearest integer, halves rounded up
MathRound(x) == MathFloor(Add(x, Norm(1, 2)))

\* Math.floor(Math.log10(x))
RECURSIVE FloorLog10(_)
FloorLog10(x) ==
  IF IsNaN(x) \/ Lt(x, Zero) THEN NaN
  ELSE IF x = Zero THEN Neg(Infinity)
  ELSE IF x = Infinity THEN Infinity
  ELSE IF Geq(x, Num(10)) THEN Add(FloorLog10(Div(x, Num(10))), Num(1))
  ELSE IF Lt(x, Num(1)) THEN Sub(FloorLog10(Mul(x, Num(10))), Num(1))
  ELSE Zero

RECURSIVE IntPow10(_)
IntPow10(k) == IF k = 0 THEN 1 ELSE 10 * IntPow10(k - 1)

\* Math.pow(10, k) for an integer, infinite or NaN exponent k
Pow10(k) ==
  IF IsNaN(k) THEN NaN
  ELSE IF k = Infinity THEN Infinity
  ELSE IF k = Neg(Infinity) THEN Zero
  ELSE IF k.n >= 0 THEN Num(IntPow10(k.n))
  ELSE Norm(1, IntPow10(-k.n))

\* undefined and null, told apart from every number by their d field
Undefined == [n |-> 0, d |-> -1]

Null == [n |-> 0, d |-> -2]

IsNumber(x) == x.d >= 0

\* the truthiness of a number | undefined | null
Truthy(x) == IsNumber(x) /\ ~IsNaN(x) /\ x # Zero

----------------------------------------------------------------------------
(* Segmenter: createSegments *)

Point(t, v) == [timestamp |-> t, value |-> v]

NoSegments == [positive |-> <<>>, negative |-> <<>>]

\* a slip in the bucket choice: the sign test inverted
PushSegmentInverted(segments, isPositive, segment) ==
  IF isPositive
  THEN [segments EXCEPT !.negative = Append(@, segment)]
  ELSE [segments EXCEPT !.positive = Append(@, segment)]

\* segments[isPositive ? "positive" : "negative"].push(segment)
PushSegment(segments, isPositive, segment) ==
  IF isPositive
  THEN [segments EXCEPT !.positive = Append(@, segment)]
  ELSE [segments EXCEPT !.negative = Append(@, segment)]

\* a slip in the interpolation: the ratio taken from the current point's value
IntersectionPointRatioOfCurrent(prevPoint, point) ==
  LET ratio == Div(MathAbs(point.value),
                   Add(MathAbs(prevPoint.value), MathAbs(point.value)))
      intersectionTimestamp ==
        Add(prevPoint.timestamp,
            Mul(Sub(point.timestamp, prevPoint.timestamp), ratio))
  IN Point(intersectionTimestamp, Zero)

\* the point synthesized where the series crosses zero between prevPoint and point
IntersectionPoint(prevPoint, point) ==
  LET ratio == Div(MathAbs(prevPoint.value),
                   Add(MathAbs(prevPoint.value), MathAbs(point.value)))
      intersectionTimestamp ==
        Add(prevPoint.timestamp,
            Mul(Sub(point.timestamp, prevPoint.timestamp), ratio))
  IN Point(intersectionTimestamp, Zero)

\* a slip at a crossing: returning before the current point is pushed
SegmentAfterCrossingDropsPoint(intersectionPoint, point) == <<intersectionPoint>>

\* the segment that is current once a crossing has closed the previous one
\* (currentSegment = [intersectionPoint]; then the point is pushed)
SegmentAfterCrossing(intersectionPoint, point) == <<intersectionPoint, point>>

\* a slip at a crossing: the segment closed without its crossing point
ClosedSegmentWithoutCrossing(currentSegment, intersectionPoint) == currentSegment

\* the segment closed at a crossing: currentSegment.push(intersectionPoint)
ClosedSegment(currentSegment, intersectionPoint) ==
  Append(currentSegment, intersectionPoint)

\* points.forEach((point, index) => ...), from the 1-based position index on;
\* the early return on a missing prevPoint is never taken: past the first
\* position a GraphPoint[] always has a previous point
RECURSIVE ForEachPoint(_, _, _, _, _)
ForEachPoint(points, index, segments, currentSegment, isPositive) ==
  IF index > Len(points)
  THEN [segments |-> segments, currentSegment |-> currentSegment,
        isPositive |-> isPositive]
  ELSE LET point == points[index]
           currentIsPositive == Geq(point.value, Zero)
       IN IF currentIsPositive # isPositive /\ index > 1
          THEN LET x == IntersectionPoint(points[index - 1], point)
               IN ForEachPoint(points, index + 1,
                    PushSegment(segments, isPositive,
                                ClosedSegment(currentSegment, x)),
                    SegmentAfterCrossing(x, point), currentIsPositive)
          ELSE ForEachPoint(points, index + 1, segments,
                            Append(currentSegment, point), isPositive)

createSegments(points) ==
  IF Len(points) = 0 THEN NoSegments
  ELSE LET end == ForEachPoint(points, 1, NoSegments, <<>>,
                               Geq(points[1].value, Zero))
       IN IF Len(end.currentSegment) > 0
          THEN PushSegment(end.segments, end.isPositive, end.currentSegment)
          ELSE end.segments

----------------------------------------------------------------------------
(* Inputs of createSegments *)

Times == {Num(t) : t \in 0..MaxTime}

Values == {Num(v) : v \in (-MaxVal)..MaxVal}

Points == {Point(t, v) : t \in Times, v \in Values}

SeqsUpTo(S, k) == UNION {[1..m -> S] : m \in 0..k}

\* the scenario of the specification: [{t:0,v:-10},{t:1,v:10}]
ScenarioPoints == <<Point(Num(0), Num(-10)), Point(Num(1), Num(10))>>

PointSeqs == SeqsUpTo(Points, MaxLen) \cup {ScenarioPoints}

----------------------------------------------------------------------------
(* Specification of the segmenter: the caller holds a point sequence and   *)
(* calls createSegments on it                                              *)

InitSegments ==
  /\ fn = "none"
  /\ args \in {[points |-> points] : points \in PointSeqs}
  /\ ret = NoSegments
  /\ Constructed

CallCreateSegments ==
  /\ fn = "none"
  /\ fn' = "createSegments"
  /\ ret' = createSegments(args.points)
  /\ UNCHANGED args
  /\ UNCHANGED stateVars

SpecSegments == InitSegments /\ [][CallCreateSegments]_vars

----------------------------------------------------------------------------
(* Domain calculator: calculateDomain *)

\* the default step of a percentage axis
DefaultRoundTo == 5

DomainResult(min, max) == [min |-> min, max |-> max, domain |-> <<min, max>>]

\* Math.floor(value / roundTo) * roundTo
RoundDownTo(value, roundTo) == Mul(MathFloor(Div(value, roundTo)), roundTo)

\* a slip in the upper bound: rounded down like the lower one
RoundUpToFloors(value, roundTo) == Mul(MathFloor(Div(value, roundTo)), roundTo)

\* Math.ceil(value / roundTo) * roundTo
RoundUpTo(value, roundTo) == Mul(MathCeil(Div(value, roundTo)), roundTo)

\* niceScaleConfig.method === "fixed" ? niceScaleConfig.roundTo || 5 : 5
PercentageRoundTo(niceScaleConfig) ==
  IF niceScaleConfig.method = "fixed"
  THEN (IF Truthy(niceScaleConfig.roundTo) THEN niceScaleConfig.roundTo
        ELSE Num(DefaultRoundTo))
  ELSE Num(DefaultRoundTo)

\* a slip in the percentage branch: the upper bound left at the rounded maximum
PercentageNiceDomainNoWidening(minValue, maxValue, roundTo) ==
  LET min == RoundDownTo(minValue, roundTo)
      max == RoundUpTo(maxValue, roundTo)
  IN [min |-> MathMin(Zero, min),
      max |-> max,
      domain |-> <<MathMin(Zero, min), max>>]

\* the percentage branch with nice scale
PercentageNiceDomain(minValue, maxValue, roundTo) ==
  LET min == RoundDownTo(minValue, roundTo)
      max == RoundUpTo(maxValue, roundTo)
  IN [min |-> MathMin(Zero, min),
      max |-> MathMax(max, Add(min, roundTo)),
      domain |-> <<MathMin(Zero, min), MathMax(max, Add(min, roundTo))>>]

\* the percentage branch without nice scale
PercentagePlainDomain(minValue, maxValue) ==
  LET min == MathMin(Zero, minValue)
      max == MathMax(maxValue, min)
  IN DomainResult(min, max)

\* a slip in the fixed branch: the data range rounded to the nearer side
FixedDomainRoundsInward(minValue, maxValue, roundTo) ==
  DomainResult(RoundUpTo(minValue, roundTo), RoundDownTo(maxValue, roundTo))

\* the non-percentage branch with nice scale, method "fixed" and a roundTo
FixedDomain(minValue, maxValue, roundTo) ==
  DomainResult(RoundDownTo(minValue, roundTo), RoundUpTo(maxValue, roundTo))

calculateDomain(minValue, maxValue, niceScale, niceScaleConfig, isPercentage) ==
  IF isPercentage
  THEN IF niceScale
       THEN PercentageNiceDomain(minValue, maxValue,
                                 PercentageRoundTo(niceScaleConfig))
       ELSE PercentagePlainDomain(minValue, maxValue)
  ELSE IF niceScale /\ niceScaleConfig.method = "fixed"
            /\ Truthy(niceScaleConfig.roundTo)
       THEN FixedDomain(minValue, maxValue, niceScaleConfig.roundTo)
       ELSE DomainResult(minValue, maxValue)

----------------------------------------------------------------------------
(* Inputs of calculateDomain *)

DataValues == {Norm(k, ValueDen) : k \in (-MaxDom * ValueDen)..(MaxDom * ValueDen)}

\* method?: "auto" | "fixed"
Methods == {"auto", "fixed", "undefined"}

\* roundTo?: number
RoundTos == {Undefined, Zero, Norm(1, 2), Num(2), Num(5), Num(-5)}

NiceScaleConfigs == [method : Methods, roundTo : RoundTos]

DomainArgs ==
  {[minValue |-> lo, maxValue |-> hi, niceScale |-> ns,
    niceScaleConfig |-> cfg, isPercentage |-> pct] :
     lo \in DataValues, hi \in DataValues, ns \in BOOLEAN,
     cfg \in NiceScaleConfigs, pct \in BOOLEAN}

----------------------------------------------------------------------------
(* Specification of the domain calculator: the caller holds the extent of  *)
(* its data (minValue <= maxValue) and calls calculateDomain               *)

InitDomain ==
  /\ fn = "none"
  /\ args \in {a \in DomainArgs : Leq(a.minValue, a.maxValue)}
  /\ ret = DomainResult(Zero, Zero)
  /\ Constructed

CallCalculateDomain ==
  /\ fn = "none"
  /\ fn' = "calculateDomain"
  /\ ret' = calculateDomain(args.minValue, args.maxValue, args.niceScale,
                            args.niceScaleConfig, args.isPercentage)
  /\ UNCHANGED args
  /\ UNCHANGED stateVars

SpecDomain == InitDomain /\ [][CallCalculateDomain]_vars

----------------------------------------------------------------------------
(* Step calculator: calculateEvenlySpacedSteps *)

\* the default value of the parameter roundTo
DefaultStepRoundTo == 1

\* a slip in the step: the range divided by count instead of count - 1
StepOverCount(min, max, count) == Div(Sub(max, min), Num(count))

\* const step = (max - min) / (count - 1)
Step(min, max, count) == Div(Sub(max, min), Num(count - 1))

calculateEvenlySpacedSteps(min, max, count, roundToArg) ==
  LET roundTo == IF roundToArg = Undefined THEN Num(DefaultStepRoundTo)
                 ELSE roundToArg
      step == Step(min, max, count)
  IN [i \in 1..count |->
        LET value == Sub(max, Mul(step, Num(i - 1)))
        IN IF Truthy(roundTo)
           THEN Mul(MathRound(Div(value, roundTo)), roundTo)
           ELSE value]

\* the scenario of the specification: calculateEvenlySpacedSteps(0, 100, 5, null)
ScenarioSteps == [min |-> Num(0), max |-> Num(100), count |-> 5, roundTo |-> Null]

StepArgs ==
  {[min |-> lo, max |-> hi, count |-> c, roundTo |-> r] :
     lo \in DataValues, hi \in DataValues, c \in 0..MaxCount,
     r \in {Null, Undefined, Zero, Num(2)}}
  \cup {ScenarioSteps}

InitSteps ==
  /\ fn = "none"
  /\ args \in {a \in StepArgs : Leq(a.min, a.max)}
  /\ ret = <<>>
  /\ Constructed

CallCalculateEvenlySpacedSteps ==
  /\ fn = "none"
  /\ fn' = "calculateEvenlySpacedSteps"
  /\ ret' = calculateEvenlySpacedSteps(args.min, args.max, args.count,
                                       args.roundTo)
  /\ UNCHANGED args
  /\ UNCHANGED stateVars

SpecSteps == InitSteps /\ [][CallCalculateEvenlySpacedSteps]_vars

----------------------------------------------------------------------------
(* Scale builder: createScales *)

\* the step the value domain is rounded to when niceScale is on
RoundedStepBaseOnly(range, isPercentage) ==
  IF isPercentage
  THEN (IF Gt(range, Num(50)) THEN Num(10) ELSE Num(5))
  ELSE Pow10(Sub(FloorLog10(range), Num(1)))

RoundedStep(range, isPercentage) ==
  IF isPercentage
  THEN (IF Gt(range, Num(50)) THEN Num(10) ELSE Num(5))
  ELSE LET magnitude == FloorLog10(range)
           baseStep == Pow10(Sub(magnitude, Num(1)))
       IN IF Leq(Div(range, baseStep), Num(10)) THEN baseStep
          ELSE IF Leq(Div(range, baseStep), Num(20)) THEN Mul(baseStep, Num(2))
          ELSE IF Leq(Div(range, baseStep), Num(50)) THEN Mul(baseStep, Num(5))
          ELSE Mul(baseStep, Num(10))

\* a slip in the adjustment: both bounds rounded to the nearest step
AdjustedDomainToNearest(domain, niceScale, isPercentage) ==
  IF niceScale
  THEN LET roundedStep == RoundedStep(Sub(domain[2], domain[1]), isPercentage)
       IN <<Mul(MathRound(Div(domain[1], roundedStep)), roundedStep),
            Mul(MathRound(Div(domain[2], roundedStep)), roundedStep)>>
  ELSE domain

\* let adjustedDomain = domain; if (niceScale) { ... adjustedDomain = [min, max] }
AdjustedDomain(domain, niceScale, isPercentage) ==
  IF niceScale
  THEN LET range == Sub(domain[2], domain[1])
           roundedStep == RoundedStep(range, isPercentage)
           min == Mul(MathFloor(Div(domain[1], roundedStep)), roundedStep)
           max == Mul(MathCeil(Div(domain[2], roundedStep)), roundedStep)
       IN <<min, max>>
  ELSE domain

\* new Date(t) as a number: the time value truncated to an integer, NaN (an
\* invalid date) for a time that is not finite
NewDate(t) ==
  IF ~IsFinite(t) THEN NaN
  ELSE IF t.n >= 0 THEN MathFloor(t) ELSE MathCeil(t)

\* yScale is described by the domain and the range it is built with, and by
\* the tick count handed to its nice() when that is applied (Null otherwise);
\* xScale by its domain and range
createScales(domain, timeRange, dimensions, niceScale, niceScaleConfig, tickCount, isPercentage) ==
  [yScale |->
     [domain |-> AdjustedDomain(domain, niceScale, isPercentage),
      range |-> <<Sub(dimensions.height, dimensions.verticalPadding),
                  dimensions.verticalPadding>>,
      nice |-> IF niceScale /\ niceScaleConfig.method = "auto"
               THEN Num(tickCount) ELSE Null],
   xScale |->
     [domain |-> <<NewDate(timeRange[1]), NewDate(timeRange[2])>>,
      range |-> <<dimensions.horizontalPadding,
                  Sub(dimensions.width, dimensions.horizontalPadding)>>]]

\* the dimensions and the time range of the example in the source
ExampleDimensions ==
  [height |-> Num(300), width |-> Num(600), verticalPadding |-> Num(20),
   horizontalPadding |-> Num(10)]

ExampleTimeRange == <<Num(0), Num(86400000)>>

\* the value domain of the source's example, a percentage domain wider than
\* 50, and its narrower half
ScenarioDomains ==
  {<<Num(44000), Num(54000)>>, <<Num(-30), Num(40)>>, <<Num(-30), Num(5)>>}

ScaleDomains ==
  {<<lo, hi>> : lo \in DataValues, hi \in DataValues} \cup ScenarioDomains

ScaleArgs ==
  {[domain |-> d, timeRange |-> ExampleTimeRange,
    dimensions |-> ExampleDimensions, niceScale |-> ns,
    niceScaleConfig |-> [method |-> m, roundTo |-> Undefined],
    tickCount |-> c, isPercentage |-> pct] :
     d \in ScaleDomains, ns \in BOOLEAN, m \in Methods,
     c \in {MaxCount}, pct \in BOOLEAN}

InitScales ==
  /\ fn = "none"
  /\ args \in {a \in ScaleArgs : Leq(a.domain[1], a.domain[2])}
  /\ ret = <<>>
  /\ Constructed

CallCreateScales ==
  /\ fn = "none"
  /\ fn' = "createScales"
  /\ ret' = createScales(args.domain, args.timeRange, args.dimensions,
                         args.niceScale, args.niceScaleConfig, args.tickCount,
                         args.isPercentage)
  /\ UNCHANGED args
  /\ UNCHANGED stateVars

SpecScales == InitScales /\ [][CallCreateScales]_vars

----------------------------------------------------------------------------
(* Step calculators around zero: calculateFixedStepValues, *)
(* calculateAutoStepValues *)

\* const isEvenTickCount = tickCount % 2 === 0
IsEvenTickCount(tickCount) == tickCount % 2 = 0

\* const halfTickCount = Math.floor(tickCount / 2)
HalfTickCount(tickCount) == tickCount \div 2

\* Math.round(range / halfTickCount / roundTo) * roundTo, for max and |min|
RoundedFixedStep(range, tickCount, roundTo) ==
  Mul(MathRound(Div(Div(range, Num(HalfTickCount(tickCount))), roundTo)),
      roundTo)

\* const skipZero = negativeStep <= positiveStep / 2
SkipZeroNever(negativeStep, positiveStep) == FALSE

SkipZero(negativeStep, positiveStep) ==
  Leq(negativeStep, Div(positiveStep, Num(2)))

\* the loop of the skip-zero case: values from max to min, each rounded
SkipZeroValues(min, max, tickCount, roundTo) ==
  LET totalRange == Sub(max, min)
      step == Div(totalRange, Num(tickCount - 1))
  IN [i \in 1..tickCount |->
        LET value == Sub(max, Mul(step, Num(i - 1)))
        IN Mul(MathRound(Div(value, roundTo)), roundTo)]

\* isEvenTickCount ? (tickCount - 2) / 2 : halfTickCount
NegativeCount(tickCount) ==
  IF IsEvenTickCount(tickCount) THEN (tickCount - 2) \div 2
  ELSE HalfTickCount(tickCount)

\* isEvenTickCount ? tickCount / 2 : halfTickCount
PositiveCount(tickCount) ==
  IF IsEvenTickCount(tickCount) THEN tickCount \div 2
  ELSE HalfTickCount(tickCount)

\* -i * negativeStep for i = negativeCount down to 1, then 0, then
\* i * positiveStep for i = 1 up to positiveCount
ValuesAroundZero(negativeStep, positiveStep, tickCount) ==
  LET negativeCount == NegativeCount(tickCount)
      positiveCount == PositiveCount(tickCount)
  IN [k \in 1..negativeCount |->
        Mul(Num(-(negativeCount - k + 1)), negativeStep)]
     \o <<Zero>>
     \o [i \in 1..positiveCount |-> Mul(Num(i), positiveStep)]

calculateFixedStepValues(min, max, tickCount, roundTo) ==
  LET positiveStep == RoundedFixedStep(max, tickCount, roundTo)
      negativeStep == RoundedFixedStep(MathAbs(min), tickCount, roundTo)
  IN IF SkipZero(negativeStep, positiveStep)
     THEN SkipZeroValues(min, max, tickCount, roundTo)
     ELSE ValuesAroundZero(negativeStep, positiveStep, tickCount)

\* isEvenTickCount ? negativeRange / (halfTickCount - 1)
\*                 : negativeRange / halfTickCount
AutoNegativeStepOverHalf(negativeRange, tickCount) ==
  Div(negativeRange, Num(HalfTickCount(tickCount)))

AutoNegativeStep(negativeRange, tickCount) ==
  IF IsEvenTickCount(tickCount)
  THEN Div(negativeRange, Num(HalfTickCount(tickCount) - 1))
  ELSE Div(negativeRange, Num(HalfTickCount(tickCount)))

calculateAutoStepValues(min, max, tickCount) ==
  LET positiveRange == max
      negativeRange == MathAbs(min)
      positiveStep == Div(positiveRange, Num(HalfTickCount(tickCount)))
      negativeStep == AutoNegativeStep(negativeRange, tickCount)
  IN ValuesAroundZero(negativeStep, positiveStep, tickCount)

\* roundTo of calculateFixedStepValues: a half, a unit, two units
FixedRoundTos == {Norm(1, 2), Num(1), Num(2)}

FixedStepArgs ==
  {[min |-> lo, max |-> hi, tickCount |-> c, roundTo |-> r] :
     lo \in DataValues, hi \in DataValues, c \in 0..MaxCount,
     r \in FixedRoundTos}

InitFixedSteps ==
  /\ fn = "none"
  /\ args \in {a \in FixedStepArgs : Leq(a.min, a.max)}
  /\ ret = <<>>
  /\ Constructed

CallCalculateFixedStepValues ==
  /\ fn = "none"
  /\ fn' = "calculateFixedStepValues"
  /\ ret' = calculateFixedStepValues(args.min, args.max, args.tickCount,
                                     args.roundTo)
  /\ UNCHANGED args
  /\ UNCHANGED stateVars

SpecFixedSteps == InitFixedSteps /\ [][CallCalculateFixedStepValues]_vars

AutoStepArgs ==
  {[min |-> lo, max |-> hi, tickCount |-> c] :
     lo \in DataValues, hi \in DataValues, c \in 0..MaxCount}

InitAutoSteps ==
  /\ fn = "none"
  /\ args \in {a \in AutoStepArgs : Leq(a.min, a.max)}
  /\ ret = <<>>
  /\ Constructed

CallCalculateAutoStepValues ==
  /\ fn = "none"
  /\ fn' = "calculateAutoStepValues"
  /\ ret' = calculateAutoStepValues(args.min, args.max, args.tickCount)
  /\ UNCHANGED args
  /\ UNCHANGED stateVars

SpecAutoSteps == InitAutoSteps /\ [][CallCalculateAutoStepValues]_vars

----------------------------------------------------------------------------
(* A linear scale applied to a value: scales.yScale(value) *)

\* normalize(a, b): (b -= a) ? x => (x - a) / b : constant(isNaN(b) ? NaN : 0.5)
Normalize(a, b, x) ==
  LET w == Sub(b, a)
  IN IF Truthy(w) THEN Div(Sub(x, a), w)
     ELSE IF IsNaN(w) THEN NaN ELSE Norm(1, 2)

\* interpolateNumber(a, b)(t) = a * (1 - t) + b * t
Interpolate(a, b, t) == Add(Mul(a, Sub(Num(1), t)), Mul(b, t))

\* the scale answers its unknown value, undefined, for NaN and for undefined;
\* a descending domain is normalised from its upper end
ScaleApplyFromRangeEnd(scale, x) ==
  IF ~IsNumber(x) \/ IsNaN(x) THEN Undefined
  ELSE Interpolate(scale.range[2], scale.range[1],
                   Normalize(scale.domain[1], scale.domain[2], x))

ScaleApply(scale, x) ==
  IF ~IsNumber(x) \/ IsNaN(x) THEN Undefined
  ELSE LET d0 == scale.domain[1]
           d1 == scale.domain[2]
           r0 == scale.range[1]
           r1 == scale.range[2]
       IN IF Lt(d1, d0) THEN Interpolate(r1, r0, Normalize(d1, d0, x))
          ELSE Interpolate(r0, r1, Normalize(d0, d1, x))

----------------------------------------------------------------------------
(* Grid hook: useGridCalculations *)

\* niceScale && niceScaleConfig.method === "fixed" ? niceScaleConfig.roundTo : null
GridRoundToIgnoresMethod(niceScale, niceScaleConfig) == niceScaleConfig.roundTo

GridRoundTo(niceScale, niceScaleConfig) ==
  IF niceScale /\ niceScaleConfig.method = "fixed"
  THEN niceScaleConfig.roundTo ELSE Null

\* the domain of a linear scale always has two numbers, so the guards on its
\* length and on undefined or null ends are never taken
GridValues(scales, tickCount, niceScale, niceScaleConfig) ==
  calculateEvenlySpacedSteps(scales.yScale.domain[1], scales.yScale.domain[2],
                             tickCount, GridRoundTo(niceScale, niceScaleConfig))

\* typeof yPosition !== "number" || isNaN(yPosition) is what skips a value
IsDrawablePosition(yPosition) == IsNumber(yPosition) /\ ~IsNaN(yPosition)

\* path.moveTo(horizontalPadding, y); path.lineTo(width - horizontalPadding, y)
GridLinePath(yPosition, width, horizontalPadding) ==
  [moveTo |-> <<horizontalPadding, yPosition>>,
   lineTo |-> <<Sub(width, horizontalPadding), yPosition>>]

RECURSIVE MapFilterGridValues(_, _, _, _)
MapFilterGridValues(values, scales, width, horizontalPadding) ==
  IF values = <<>> THEN <<>>
  ELSE LET yPosition == ScaleApply(scales.yScale, Head(values))
           rest == MapFilterGridValues(Tail(values), scales, width,
                                       horizontalPadding)
       IN IF IsDrawablePosition(yPosition)
          THEN <<GridLinePath(yPosition, width, horizontalPadding)>> \o rest
          ELSE rest

GridLinePaths(gridValues, scales, width, horizontalPadding, tickCount) ==
  IF tickCount = 0 \/ Len(gridValues) = 0 THEN <<>>
  ELSE MapFilterGridValues(gridValues, scales, width, horizontalPadding)

useGridCalculations(scales, width, horizontalPadding, tickCount, niceScale, niceScaleConfig) ==
  LET gridValues == GridValues(scales, tickCount, niceScale, niceScaleConfig)
  IN [gridValues |-> gridValues,
      gridLinePaths |-> GridLinePaths(gridValues, scales, width,
                                      horizontalPadding, tickCount)]

\* value domains a scale can carry: ordered, reversed and degenerate pairs of
\* small integers, and the domains built from data without finite extent
GridDomainValues == {Num(k) : k \in -MaxVal..MaxVal}

SpecialDomains ==
  {<<Infinity, Neg(Infinity)>>, <<NaN, NaN>>, <<Zero, Infinity>>}

GridDomains ==
  {<<lo, hi>> : lo \in GridDomainValues, hi \in GridDomainValues}
    \cup SpecialDomains

GridRoundTos == {Undefined, Zero, Norm(1, 2), Num(2)}

\* pixel ranges of the y scale: the example's, and that of a chart whose
\* height is not finite
GridRanges ==
  {<<Sub(ExampleDimensions.height, ExampleDimensions.verticalPadding),
     ExampleDimensions.verticalPadding>>,
   <<Infinity, ExampleDimensions.verticalPadding>>}

GridArgs ==
  {[scales |->
      [yScale |-> [domain |-> d, range |-> rg, nice |-> Null],
       xScale |-> [domain |-> ExampleTimeRange,
                   range |-> <<ExampleDimensions.horizontalPadding,
                               Sub(ExampleDimensions.width,
                                   ExampleDimensions.horizontalPadding)>>]],
    width |-> ExampleDimensions.width,
    horizontalPadding |-> ExampleDimensions.horizontalPadding,
    tickCount |-> c, niceScale |-> ns,
    niceScaleConfig |-> [method |-> m, roundTo |-> r]] :
     d \in GridDomains, rg \in GridRanges, c \in 0..MaxCount,
     ns \in BOOLEAN, m \in Methods, r \in GridRoundTos}

InitGrid ==
  /\ fn = "none"
  /\ args \in GridArgs
  /\ ret = <<>>
  /\ Constructed

CallUseGridCalculations ==
  /\ fn = "none"
  /\ fn' = "useGridCalculations"
  /\ ret' = useGridCalculations(args.scales, args.width,
                                args.horizontalPadding, args.tickCount,
                                args.niceScale, args.niceScaleConfig)
  /\ UNCHANGED args
  /\ UNCHANGED stateVars

SpecGrid == InitGrid /\ [][CallUseGridCalculations]_vars

----------------------------------------------------------------------------
(* Path builder: getCurveFactory, createLinePath, createAreaPath *)

\* the values of the enum GraphLineStyle
GraphLineStyles == {"linear", "natural", "catmull", "monotone", "step"}

\* keys every object literal inherits from Object.prototype; their values are
\* functions that are not curve factories
ObjectPrototypeKeys == {"constructor", "toString", "hasOwnProperty"}

\* CURVE_FACTORIES[lineStyle]: the own entries of the object literal, the
\* inherited members, undefined for any other key
CURVE_FACTORIES(lineStyle) ==
  CASE lineStyle = "linear" -> "curveLinear"
    [] lineStyle = "natural" -> "curveNatural"
    [] lineStyle = "catmull" -> "curveCatmullRom"
    [] lineStyle = "monotone" -> "curveMonotoneX"
    [] lineStyle = "step" -> "curveStep"
    [] lineStyle \in ObjectPrototypeKeys -> "Object.prototype"
    [] OTHER -> "undefined"

\* the curve factories of d3
CurveFactories ==
  {"curveLinear", "curveNatural", "curveCatmullRom", "curveMonotoneX",
   "curveStep"}

\* lineStyle = GraphLineStyle.CatmullRom when the argument is undefined;
\* if (!curveFactory) { console.warn(...); return curveCatmullRom; }
getCurveFactory(lineStyleArg) ==
  LET lineStyle == IF lineStyleArg = "undefined" THEN "catmull"
                   ELSE lineStyleArg
      curveFactory == CURVE_FACTORIES(lineStyle)
  IN IF curveFactory = "undefined"
     THEN [curve |-> "curveCatmullRom", warned |-> TRUE]
     ELSE [curve |-> curveFactory, warned |-> FALSE]

\* +x: the number of a scale's answer, NaN for undefined
ToNumber(x) == IF x = Undefined THEN NaN ELSE x

\* (xScale(d.timestamp), yScale(d.value)) for each point
PixelPoints(points, scales) ==
  [i \in DOMAIN points |->
     <<ToNumber(ScaleApply(scales.xScale, points[i].timestamp)),
       ToNumber(ScaleApply(scales.yScale, points[i].value))>>]

\* what a call returns: no path, a path, or the TypeError the generator of d3
\* raises when what it is given as curve has no lineStart
NoPath == [kind |-> "null"]

TypeError == [kind |-> "TypeError"]

\* createPath(line().x(...).y(...).curve(getCurveFactory(lineStyle))(segment));
\* the generator answers null for no points
createLinePath(segment, scales, lineStyle) ==
  LET factory == getCurveFactory(lineStyle)
  IN [path |-> IF Len(segment) = 0 THEN NoPath
               ELSE IF factory.curve \notin CurveFactories THEN TypeError
               ELSE [kind |-> "line", curve |-> factory.curve,
                     points |-> PixelPoints(segment, scales)],
      warned |-> factory.warned]

\* .y0(scales.yScale(0))
AreaBaselineAtDomainMin(scales) ==
  ToNumber(ScaleApply(scales.yScale, scales.yScale.domain[1]))

AreaBaseline(scales) == ToNumber(ScaleApply(scales.yScale, Zero))

\* if (!points.length) return null; then the area generator with the upper
\* edge y1 and the lower edge y0
createAreaPath(points, scales, lineStyle) ==
  IF Len(points) = 0 THEN [path |-> NoPath, warned |-> FALSE]
  ELSE LET y0 == AreaBaseline(scales)
           factory == getCurveFactory(lineStyle)
       IN [path |-> IF factory.curve \notin CurveFactories THEN TypeError
                    ELSE [kind |-> "area", curve |-> factory.curve,
                          points |-> PixelPoints(points, scales),
                          y0 |-> y0],
           warned |-> factory.warned]

\* series of up to MaxPathLen points, one per time unit
PathPointSeqs ==
  UNION {{[i \in 1..m |-> Point(Num(i - 1), vs[i])] : vs \in [1..m -> Values]} :
           m \in 0..MaxPathLen}

\* value domains that contain 0, lie above it, and are degenerate
PathDomains ==
  {<<Num(-MaxVal), Num(MaxVal)>>, <<Num(1), Num(MaxVal)>>, <<Num(1), Num(1)>>}

PathScales ==
  {[yScale |-> [domain |-> d,
                range |-> <<Sub(ExampleDimensions.height,
                                ExampleDimensions.verticalPadding),
                            ExampleDimensions.verticalPadding>>,
                nice |-> Null],
    xScale |-> [domain |-> <<Num(0), Num(MaxPathLen)>>,
                range |-> <<ExampleDimensions.horizontalPadding,
                            Sub(ExampleDimensions.width,
                                ExampleDimensions.horizontalPadding)>>]] :
     d \in PathDomains}

\* the styles of the enum, an omitted style, styles that do not exist, and
\* names of inherited members
LineStyleArgs ==
  GraphLineStyles \cup {"undefined", "dashed", ""} \cup ObjectPrototypeKeys

PathArgs ==
  {[points |-> ps, scales |-> sc, lineStyle |-> ls] :
     ps \in PathPointSeqs, sc \in PathScales, ls \in LineStyleArgs}

InitPaths ==
  /\ fn = "none"
  /\ args \in PathArgs
  /\ ret = <<>>
  /\ Constructed

CallCreateLinePath ==
  /\ fn = "none"
  /\ fn' = "createLinePath"
  /\ ret' = createLinePath(args.points, args.scales, args.lineStyle)
  /\ UNCHANGED args
  /\ UNCHANGED stateVars

CallCreateAreaPath ==
  /\ fn = "none"
  /\ fn' = "createAreaPath"
  /\ ret' = createAreaPath(args.points, args.scales, args.lineStyle)
  /\ UNCHANGED args
  /\ UNCHANGED stateVars

NextPaths == CallCreateLinePath \/ CallCreateAreaPath

SpecPaths == InitPaths /\ [][NextPaths]_vars

----------------------------------------------------------------------------
(* The nice() of a linear scale: yScale.nice(tickCount) *)

\* error >= e10 ? 10 : error >= e5 ? 5 : error >= e2 ? 2 : 1, the thresholds
\* being the square roots of 50, 10 and 2
TickFactor(square) ==
  IF Geq(square, Num(50)) THEN Num(10)
  ELSE IF Geq(square, Num(10)) THEN Num(5)
  ELSE IF Geq(square, Num(2)) THEN Num(2)
  ELSE Num(1)

\* the increment for a raw step and the power of ten below it
TickIncrementOf(step, power) ==
  IF Geq(power, Zero)
  THEN Mul(TickFactor(Mul(Div(step, Pow10(power)), Div(step, Pow10(power)))),
           Pow10(power))
  ELSE Neg(Div(Pow10(Neg(power)),
               TickFactor(Mul(Div(step, Pow10(power)),
                              Div(step, Pow10(power))))))

\* tickIncrement(start, stop, count): a power of ten times 1, 2, 5 or 10, as
\* a step when it is at least 1 and as the negated inverse of a step below 1
TickIncrement(start, stop, count) ==
  TickIncrementOf(Div(Sub(stop, start), MathMax(Zero, count)),
                  FloorLog10(Div(Sub(stop, start), MathMax(Zero, count))))

\* one pass of the loop of nice() for the increment step: the ends are
\* widened to multiples of step; the loop is done when the increment repeats
\* (the domain is then set) or is not usable (the domain is then left as it
\* is)
NicePassBy(st, step) ==
  IF step = st.prestep /\ ~IsNaN(step)
  THEN [st EXCEPT !.done = TRUE, !.changed = TRUE]
  ELSE IF Gt(step, Zero)
  THEN [start |-> Mul(MathFloor(Div(st.start, step)), step),
        stop |-> Mul(MathCeil(Div(st.stop, step)), step),
        prestep |-> step, done |-> FALSE, changed |-> FALSE]
  ELSE IF Lt(step, Zero)
  THEN [start |-> Div(MathCeil(Mul(st.start, step)), step),
        stop |-> Div(MathFloor(Mul(st.stop, step)), step),
        prestep |-> step, done |-> FALSE, changed |-> FALSE]
  ELSE [st EXCEPT !.done = TRUE]

NicePass(st, count) ==
  NicePassBy(st, TickIncrement(st.start, st.stop, count))

\* while (maxIter-- > 0) { ... }
RECURSIVE NiceLoop(_, _, _)
NiceLoop(st, count, maxIter) ==
  IF maxIter = 0 \/ st.done THEN st
  ELSE CHOOSE result \in {NiceLoop(next, count, maxIter - 1) :
                             next \in {NicePass(st, count)}} : TRUE

Nice(domain, count) ==
  LET reversed == Lt(domain[2], domain[1])
      result == NiceLoop([start |-> IF reversed THEN domain[2] ELSE domain[1],
                          stop |-> IF reversed THEN domain[1] ELSE domain[2],
                          prestep |-> Undefined, done |-> FALSE,
                          changed |-> FALSE], count, 10)
  IN IF ~result.changed THEN domain
     ELSE IF reversed THEN <<result.stop, result.start>>
     ELSE <<result.start, result.stop>>

\* the scale with its nice() carried out
ApplyNice(scale) ==
  [domain |-> IF scale.nice = Null THEN scale.domain
              ELSE Nice(scale.domain, scale.nice),
   range |-> scale.range,
   nice |-> Null]

----------------------------------------------------------------------------
(* The series hook: useSeriesData *)

\* the default value of the prop tickCount
DefaultTickCount == 3

\* all points of all series, in order
RECURSIVE AllPoints(_)
AllPoints(series) ==
  IF series = <<>> THEN <<>>
  ELSE Head(series).points \o AllPoints(Tail(series))

RECURSIVE FoldMin(_, _)
FoldMin(acc, xs) ==
  IF xs = <<>> THEN acc ELSE FoldMin(MathMin(acc, Head(xs)), Tail(xs))

RECURSIVE FoldMax(_, _)
FoldMax(acc, xs) ==
  IF xs = <<>> THEN acc ELSE FoldMax(MathMax(acc, Head(xs)), Tail(xs))

ValuesOf(points) == [i \in DOMAIN points |-> points[i].value]

TimestampsOf(points) == [i \in DOMAIN points |-> points[i].timestamp]

\* if (!series.length) return { min: 0, max: 0, timeRange: [0, 0] }; else the
\* folds from Infinity and -Infinity over every point of every series
OverallRange(series) ==
  IF Len(series) = 0
  THEN [min |-> Zero, max |-> Zero, timeRange |-> <<Zero, Zero>>]
  ELSE LET points == AllPoints(series)
       IN [min |-> FoldMin(Infinity, ValuesOf(points)),
           max |-> FoldMax(Neg(Infinity), ValuesOf(points)),
           timeRange |-> <<FoldMin(Infinity, TimestampsOf(points)),
                           FoldMax(Neg(Infinity), TimestampsOf(points))>>]

\* an accumulator that keeps only the path it is handed last
AddPathReplacing(combined, path) == path

\* combined.addPath(path): the contours of path after those of combined
AddPath(combined, path) ==
  IF combined.kind = "combined"
  THEN [kind |-> "combined", parts |-> Append(combined.parts, path)]
  ELSE [kind |-> "combined", parts |-> <<combined, path>>]

\* paths.reduce((combined, path) => !combined ? path : !path ? combined
\*   : (combined.addPath(path), combined), null)
RECURSIVE ReducePaths(_, _)
ReducePaths(combined, paths) ==
  IF paths = <<>> THEN combined
  ELSE ReducePaths(IF combined = NoPath THEN Head(paths)
                   ELSE IF Head(paths) = NoPath THEN combined
                   ELSE AddPath(combined, Head(paths)),
                   Tail(paths))

\* the sub-paths a reduce is handed: null (what createPath answers for no
\* path data) or the line of one segment
SamplePaths ==
  {[kind |-> "line", curve |-> "curveCatmullRom",
    points |-> <<<<Num(i), Num(i)>>>>] : i \in 1..2}

SubPathSeqs ==
  UNION {[1..m -> {NoPath} \cup SamplePaths] : m \in 0..MaxSubPaths}

InitCombine ==
  /\ fn = "none"
  /\ args \in {[paths |-> ps] : ps \in SubPathSeqs}
  /\ ret = <<>>
  /\ Constructed

\* positiveLinePaths.reduce(..., null), and its three siblings
CallReducePaths ==
  /\ fn = "none"
  /\ fn' = "reduce"
  /\ ret' = ReducePaths(NoPath, args.paths)
  /\ UNCHANGED args
  /\ UNCHANGED stateVars

SpecCombine == InitCombine /\ [][CallReducePaths]_vars

LinePaths(segments, scales, lineStyle) ==
  [i \in DOMAIN segments |-> createLinePath(segments[i], scales, lineStyle).path]

AreaPaths(segments, scales, lineStyle) ==
  [i \in DOMAIN segments |-> createAreaPath(segments[i], scales, lineStyle).path]

\* the entry of one series in seriesData
SeriesDataOf(s, scales, lineStyle) ==
  IF Len(s.points) = 0
  THEN [min |-> Zero, max |-> Zero, curvePath |-> NoPath, areaPath |-> NoPath,
        curveValuePath |-> [positive |-> NoPath, negative |-> NoPath],
        areaValuePath |-> [positive |-> NoPath, negative |-> NoPath]]
  ELSE LET segments == createSegments(s.points)
       IN [min |-> FoldMin(Infinity, ValuesOf(s.points)),
           max |-> FoldMax(Neg(Infinity), ValuesOf(s.points)),
           curvePath |-> createLinePath(s.points, scales, lineStyle).path,
           areaPath |-> createAreaPath(s.points, scales, lineStyle).path,
           curveValuePath |->
             [positive |-> ReducePaths(NoPath,
                             LinePaths(segments.positive, scales, lineStyle)),
              negative |-> ReducePaths(NoPath,
                             LinePaths(segments.negative, scales, lineStyle))],
           areaValuePath |->
             [positive |-> ReducePaths(NoPath,
                             AreaPaths(segments.positive, scales, lineStyle)),
              negative |-> ReducePaths(NoPath,
                             AreaPaths(segments.negative, scales, lineStyle))]]

useSeriesData(series, dimensions, tickCount, niceScale, niceScaleConfig, isPercentage, lineStyle) ==
  LET overall == OverallRange(series)
      domain == calculateDomain(overall.min, overall.max, niceScale,
                                niceScaleConfig, isPercentage).domain
      built == createScales(domain, overall.timeRange, dimensions, niceScale,
                            niceScaleConfig, tickCount, isPercentage)
      scales == [yScale |-> ApplyNice(built.yScale), xScale |-> built.xScale]
      grid == useGridCalculations(scales, dimensions.width,
                                  dimensions.horizontalPadding, tickCount,
                                  niceScale, niceScaleConfig)
  IN [seriesData |->
        [i \in DOMAIN series |-> SeriesDataOf(series[i], scales, lineStyle)],
      min |-> overall.min,
      max |-> overall.max,
      gridValues |-> grid.gridValues,
      gridLinePaths |-> grid.gridLinePaths,
      scales |-> scales]

\* values of the points of a chart: below, at and above zero
SeriesValues == {Num(-1), Zero, Num(2)}

SeriesPointSeqs ==
  UNION {{[i \in 1..m |-> Point(Num(i - 1), vs[i])] :
            vs \in [1..m -> SeriesValues]} : m \in 0..MaxPathLen}

\* series lists: none, series without points, and one series with points
\* alone or beside a series without points
SeriesLists ==
  {[i \in 1..m |-> [points |-> <<>>]] : m \in 0..MaxSeries}
    \cup {<<[points |-> ps]>> : ps \in SeriesPointSeqs}
    \cup {<<[points |-> ps], [points |-> <<>>]>> : ps \in SeriesPointSeqs}

SeriesDataArgs ==
  {[series |-> sr, dimensions |-> ExampleDimensions, tickCount |-> c,
    niceScale |-> ns, niceScaleConfig |-> [method |-> m, roundTo |-> r],
    isPercentage |-> pct, lineStyle |-> ls] :
     sr \in SeriesLists, c \in {0, DefaultTickCount, MaxCount},
     ns \in BOOLEAN, m \in Methods, r \in {Undefined, Num(2)},
     pct \in BOOLEAN, ls \in {"undefined", "linear"}}

InitSeriesData ==
  /\ fn = "none"
  /\ args \in SeriesDataArgs
  /\ ret = <<>>
  /\ Constructed

CallUseSeriesData ==
  /\ fn = "none"
  /\ fn' = "useSeriesData"
  /\ ret' = useSeriesData(args.series, args.dimensions, args.tickCount,
                          args.niceScale, args.niceScaleConfig,
                          args.isPercentage, args.lineStyle)
  /\ UNCHANGED args
  /\ UNCHANGED stateVars

SpecSeriesData == InitSeriesData /\ [][CallUseSeriesData]_vars

----------------------------------------------------------------------------
(* The value domain of a chart: calculateDomain, then createScales, as     *)
(* useSeriesData calls them                                                *)

\* roundTo when it is given as the contract asks: a positive number
PositiveRoundTos == {Undefined, Norm(1, 2), Num(5)}

\* the extent of data that is not constant: minValue < maxValue
ExtentArgs ==
  {[minValue |-> e[1], maxValue |-> e[2], niceScale |-> ns,
    niceScaleConfig |-> [method |-> m, roundTo |-> r],
    isPercentage |-> pct, tickCount |-> DefaultTickCount] :
     e \in {x \in DataValues \X DataValues : Lt(x[1], x[2])}, ns \in BOOLEAN,
     m \in Methods, r \in PositiveRoundTos, pct \in BOOLEAN}

\* const { domain } = calculateDomain(min, max, ...); return createScales(domain, ...)
ScalesOfExtent(minValue, maxValue, dimensions, niceScale, niceScaleConfig, tickCount, isPercentage) ==
  createScales(calculateDomain(minValue, maxValue, niceScale, niceScaleConfig,
                               isPercentage).domain,
               ExampleTimeRange, dimensions, niceScale, niceScaleConfig,
               tickCount, isPercentage)

InitExtent ==
  /\ fn = "none"
  /\ args \in ExtentArgs
  /\ ret = <<>>
  /\ Constructed

CallScalesOfExtent ==
  /\ fn = "none"
  /\ fn' = "scales"
  /\ ret' = ScalesOfExtent(args.minValue, args.maxValue, ExampleDimensions,
                           args.niceScale, args.niceScaleConfig,
                           args.tickCount, args.isPercentage)
  /\ UNCHANGED args
  /\ UNCHANGED stateVars

SpecExtent == InitExtent /\ [][CallScalesOfExtent]_vars

----------------------------------------------------------------------------
(* Ticker store: src/store/tickerStore.ts *)

\* the ticker symbols of the list and the char codes of their letters
CharCodes == [BONK |-> <<66, 79, 78, 75>>, WIF |-> <<87, 73, 70>>]

TickerSymbols == DOMAIN CharCodes

\* the reasons callers pause with; "undefined" is a call without argument
ReasonArgs == {"scroll", "focus", "undefined"}

\* (reason = "unknown"): the default parameter
ReasonOf(reasonArg) == IF reasonArg = "undefined" THEN "unknown" ELSE reasonArg

\* what Math.sin and Math.cos answer for a ticker at the time of an update:
\* both at their minimum, both zero, both at their maximum
Waves == {<<Num(-1), Num(-1)>>, <<Zero, Zero>>, <<Num(1), Num(1)>>}

RECURSIVE SumCodes(_)
SumCodes(codes) == IF codes = <<>> THEN 0 ELSE Head(codes) + SumCodes(Tail(codes))

\* ticker.split("").reduce((acc, char) => acc + char.charCodeAt(0), 0)
Hash(ticker) == SumCodes(CharCodes[ticker])

\* x % y of two numbers: the remainder has the sign of x
Remainder(x, y) ==
  LET q == Div(x, y)
      truncated == IF Lt(q, Zero) THEN MathCeil(q) ELSE MathFloor(q)
  IN Sub(x, Mul(y, truncated))

\* the cached static data of a ticker; createdAt is the time of the first
\* call less an age that depends on the hash alone
getStaticTickerData(ticker) ==
  LET hash == Hash(ticker)
      ath == Num(5000 + (hash % 65000))
      mcapBase == Add(Num(1000),
                      Remainder(Num(hash * 3),
                                MathMin(Mul(ath, Norm(3, 10)),
                                        Sub(ath, Num(1000)))))
  IN [ath |-> ath, tokenName |-> ticker, createdAt |-> hash,
      mcapBase |-> mcapBase]

\* the record initializeTickers stores for a ticker
InitialTickerData(ticker) ==
  LET staticData == getStaticTickerData(ticker)
  IN [progress |-> Mul(Div(staticData.mcapBase, staticData.ath), Num(100)),
      mcap |-> staticData.mcapBase,
      ath |-> staticData.ath,
      tokenName |-> staticData.tokenName,
      createdAt |-> staticData.createdAt,
      isLoading |-> FALSE]

\* an update that writes the volatile value without the floor and the cap
ClampedMcapUnclamped(staticData, volatility) ==
  Add(staticData.mcapBase, volatility)

\* Math.max(1000, Math.min(staticData.ath, staticData.mcapBase + volatility))
ClampedMcap(staticData, volatility) ==
  MathMax(Num(1000),
          MathMin(staticData.ath, Add(staticData.mcapBase, volatility)))

\* the record updateTickerData stores for a ticker whose sine and cosine
\* are wave[1] and wave[2]
UpdatedTickerData(ticker, data, wave) ==
  LET staticData == getStaticTickerData(ticker)
      volatility == Add(Mul(wave[1], Mul(staticData.ath, Norm(1, 10))),
                        Mul(wave[2], Mul(staticData.ath, Norm(1, 20))))
      mcap == ClampedMcap(staticData, volatility)
  IN [progress |-> Mul(Div(mcap, staticData.ath), Num(100)),
      mcap |-> mcap,
      ath |-> data.ath,
      tokenName |-> data.tokenName,
      createdAt |-> data.createdAt,
      isLoading |-> data.isLoading]

\* initializeTickers, the part that writes the store:
\* set({ tickerData, isInitialized: true })
initializeTickers(state, tickers) ==
  [state EXCEPT !.tickerData = [t \in tickers |-> InitialTickerData(t)],
                !.isInitialized = TRUE]

\* updateTickerData: set({ tickerData: updatedData }); waves gives every
\* ticker its sine and cosine
updateTickerData(state, waves) ==
  [state EXCEPT !.tickerData =
     [t \in DOMAIN state.tickerData |->
        UpdatedTickerData(t, state.tickerData[t], waves[t])]]

\* pauseUpdates: set({ isPaused: true, pauseReasons: newReasons })
pauseUpdates(state, reasonArg) ==
  [state EXCEPT !.isPaused = TRUE,
                !.pauseReasons = state.pauseReasons \cup {ReasonOf(reasonArg)}]

\* a resume that takes the pause off whatever reasons remain
ShouldResumeAlways(newReasons) == TRUE

\* const shouldResume = newReasons.size === 0
ShouldResume(newReasons) == newReasons = {}

\* resumeUpdates: the reason is deleted, isPaused is !shouldResume, and a full
\* resume of an initialized store updates the data at once
resumeUpdates(state, reasonArg, waves) ==
  LET newReasons == state.pauseReasons \ {ReasonOf(reasonArg)}
      shouldResume == ShouldResume(newReasons)
      resumed == [state EXCEPT !.isPaused = ~shouldResume,
                               !.pauseReasons = newReasons]
  IN IF shouldResume /\ resumed.isInitialized
     THEN updateTickerData(resumed, waves)
     ELSE resumed

\* the sines and cosines an update can meet
WavesOf(state) == [DOMAIN state.tickerData -> Waves]

\* setInterval and setTimeout answer an id no running timer has
FreshTimer(running) == CHOOSE id \in 1..(Cardinality(running) + 1) : id \notin running

\* an initializeTickers that leaves the previous interval running
ClearIntervalNot(running, id) == running

\* clearInterval(id)
ClearInterval(running, id) == running \ {id}

\* an interval callback that does not look at isPaused
IntervalCallbackUnpaused(state, waves) == updateTickerData(state, waves)

\* the interval's callback: if (!isPaused) get().updateTickerData()
IntervalCallback(state, waves) ==
  IF ~state.isPaused THEN updateTickerData(state, waves) ELSE state

otherThanStore == <<scrollVars, focusVars, rendered>>

\* initializeTickers(tickers); ret tells which interval the call cleared
InitializeTickersCall(tickers) ==
  /\ fn' = "initializeTickers"
  /\ args' = [tickers |-> tickers]
  /\ ret' = [cleared |-> globalUpdateInterval]
  /\ store' = initializeTickers(store, tickers)
  /\ LET cleared == IF globalUpdateInterval # NoTimer
                    THEN ClearInterval(intervals, globalUpdateInterval)
                    ELSE intervals
         id == FreshTimer(cleared)
     IN /\ globalUpdateInterval' = id
        /\ intervals' = cleared \cup {id}

InitializeTickers ==
  \E tickers \in SUBSET TickerSymbols :
    /\ InitializeTickersCall(tickers)
    /\ UNCHANGED otherThanStore

\* one firing of an interval that is running
IntervalTick ==
  \E id \in intervals, waves \in WavesOf(store) :
    /\ fn' = "tick"
    /\ args' = [id |-> id]
    /\ ret' = <<>>
    /\ store' = IntervalCallback(store, waves)
    /\ UNCHANGED <<globalUpdateInterval, intervals, otherThanStore>>

\* a caller of the store's updateTickerData
UpdateTickerData ==
  \E waves \in WavesOf(store) :
    /\ fn' = "updateTickerData"
    /\ args' = <<>>
    /\ ret' = <<>>
    /\ store' = updateTickerData(store, waves)
    /\ UNCHANGED <<globalUpdateInterval, intervals, otherThanStore>>

PauseUpdates ==
  \E reason \in ReasonArgs :
    /\ fn' = "pauseUpdates"
    /\ args' = [reason |-> reason]
    /\ ret' = <<>>
    /\ store' = pauseUpdates(store, reason)
    /\ UNCHANGED <<globalUpdateInterval, intervals, otherThanStore>>

ResumeUpdates ==
  \E reason \in ReasonArgs, waves \in WavesOf(store) :
    /\ fn' = "resumeUpdates"
    /\ args' = [reason |-> reason]
    /\ ret' = <<>>
    /\ store' = resumeUpdates(store, reason, waves)
    /\ UNCHANGED <<globalUpdateInterval, intervals, otherThanStore>>

\* if (globalUpdateInterval) { clearInterval(...); globalUpdateInterval = null }
CleanupTickerStore ==
  /\ fn' = "cleanupTickerStore"
  /\ args' = <<>>
  /\ ret' = <<>>
  /\ IF globalUpdateInterval # NoTimer
     THEN /\ intervals' = ClearInterval(intervals, globalUpdateInterval)
          /\ globalUpdateInterval' = NoTimer
     ELSE UNCHANGED <<globalUpdateInterval, intervals>>
  /\ UNCHANGED <<store, otherThanStore>>

InitTicker ==
  /\ fn = "none"
  /\ args = <<>>
  /\ ret = <<>>
  /\ Constructed

NextTicker ==
  \/ InitializeTickers
  \/ IntervalTick
  \/ UpdateTickerData
  \/ PauseUpdates
  \/ ResumeUpdates
  \/ CleanupTickerStore

SpecTicker == InitTicker /\ [][NextTicker]_vars

----------------------------------------------------------------------------
(* Scroll state hook: useScrollState, with the callbacks Screen hands it *)

\* onScrollStart: () => pauseUpdates("scroll")
OnScrollStart(state) == pauseUpdates(state, "scroll")

\* onScrollEnd: () => resumeUpdates("scroll")
OnScrollEnd(state, waves) == resumeUpdates(state, "scroll", waves)

TimerIds(pending) == {t.id : t \in pending}

\* clearTimeout(id)
ClearTimeout(pending, id) == {t \in pending : t.id # id}

\* if (ref.current) { clearTimeout(ref.current); ref.current = null }
ClearRef(pending, ref) == IF ref # NoTimer THEN ClearTimeout(pending, ref) ELSE pending

NumStarts == Cardinality({i \in DOMAIN scrollCalls : scrollCalls[i] = "onScrollStart"})

\* startPauseProcess: the resume timeout is cleared; if not already paused a
\* pause timeout is set and pauseTimeoutRef holds it, while the pause timeout
\* of an earlier drag, if any, stays pending
StartPauseProcess ==
  LET cleared == ClearRef(timeouts, resumeTimeoutRef)
      id == FreshTimer(TimerIds(cleared))
  IN /\ resumeTimeoutRef' = NoTimer
     /\ IF ~hasPausedRef
        THEN /\ pauseTimeoutRef' = id
             /\ timeouts' = cleared \cup {[id |-> id, kind |-> "pause"]}
        ELSE /\ pauseTimeoutRef' = pauseTimeoutRef
             /\ timeouts' = cleared

\* startResumeProcess: the pause timeout is cleared, a resume timeout is set
\* and resumeTimeoutRef holds it
StartResumeProcess ==
  LET cleared == ClearRef(timeouts, pauseTimeoutRef)
      id == FreshTimer(TimerIds(cleared))
  IN /\ pauseTimeoutRef' = NoTimer
     /\ resumeTimeoutRef' = id
     /\ timeouts' = cleared \cup {[id |-> id, kind |-> "resume"]}

\* the user puts a finger on the list and drags: isScrollingRef.current = true;
\* startPauseProcess()
OnScrollBeginDrag ==
  /\ gesture # "dragging"
  /\ NumStarts + Cardinality(timeouts) < MaxScrollStarts
  /\ fn' = "onScrollBeginDrag"
  /\ args' = <<>>
  /\ ret' = <<>>
  /\ gesture' = "dragging"
  /\ isScrollingRef' = TRUE
  /\ StartPauseProcess
  /\ UNCHANGED <<hasPausedRef, scrollCalls, storeVars, focusVars, rendered>>

\* the finger is lifted, with or without momentum; the handler does nothing
OnScrollEndDrag ==
  \E momentum \in BOOLEAN :
    /\ gesture = "dragging"
    /\ fn' = "onScrollEndDrag"
    /\ args' = [momentum |-> momentum]
    /\ ret' = <<>>
    /\ gesture' = IF momentum THEN "momentum" ELSE "idle"
    /\ UNCHANGED <<pauseTimeoutRef, resumeTimeoutRef, isScrollingRef, hasPausedRef, timeouts, scrollCalls, storeVars, focusVars, rendered>>

\* the momentum of a released drag has ended: isScrollingRef.current = false;
\* startResumeProcess()
OnMomentumScrollEnd ==
  /\ gesture = "momentum"
  /\ fn' = "onMomentumScrollEnd"
  /\ args' = <<>>
  /\ ret' = <<>>
  /\ gesture' = "idle"
  /\ isScrollingRef' = FALSE
  /\ StartResumeProcess
  /\ UNCHANGED <<hasPausedRef, scrollCalls, storeVars, focusVars, rendered>>

\* a pause timeout fires: if (onScrollStart && isScrollingRef.current)
\* { onScrollStart(); hasPausedRef.current = true } pauseTimeoutRef.current = null
PauseTimeoutFires ==
  \E t \in timeouts :
    /\ t.kind = "pause"
    /\ fn' = "pauseTimeout"
    /\ args' = [id |-> t.id]
    /\ ret' = <<>>
    /\ timeouts' = timeouts \ {t}
    /\ pauseTimeoutRef' = NoTimer
    /\ IF isScrollingRef
       THEN /\ scrollCalls' = Append(scrollCalls, "onScrollStart")
            /\ store' = OnScrollStart(store)
            /\ hasPausedRef' = TRUE
       ELSE UNCHANGED <<scrollCalls, store, hasPausedRef>>
    /\ UNCHANGED <<resumeTimeoutRef, isScrollingRef, gesture, globalUpdateInterval, intervals, focusVars, rendered>>

\* a resume timeout fires: if (onScrollEnd && hasPausedRef.current)
\* { onScrollEnd(); hasPausedRef.current = false } resumeTimeoutRef.current = null
ResumeTimeoutFires ==
  \E t \in timeouts, waves \in WavesOf(store) :
    /\ t.kind = "resume"
    /\ fn' = "resumeTimeout"
    /\ args' = [id |-> t.id]
    /\ ret' = <<>>
    /\ timeouts' = timeouts \ {t}
    /\ resumeTimeoutRef' = NoTimer
    /\ IF hasPausedRef
       THEN /\ scrollCalls' = Append(scrollCalls, "onScrollEnd")
            /\ store' = OnScrollEnd(store, waves)
            /\ hasPausedRef' = FALSE
       ELSE UNCHANGED <<scrollCalls, store, hasPausedRef>>
    /\ UNCHANGED <<pauseTimeoutRef, isScrollingRef, gesture, globalUpdateInterval, intervals, focusVars, rendered>>

InitScroll ==
  /\ fn = "none"
  /\ args = <<>>
  /\ ret = <<>>
  /\ Constructed

NextScroll ==
  \/ OnScrollBeginDrag
  \/ OnScrollEndDrag
  \/ OnMomentumScrollEnd
  \/ PauseTimeoutFires
  \/ ResumeTimeoutFires

\* the hook with callbacks whose identities never change
SpecScroll == InitScroll /\ [][NextScroll]_vars

\* a timeout that is pending fires
FairSpecScroll ==
  /\ SpecScroll
  /\ WF_vars(PauseTimeoutFires)
  /\ WF_vars(ResumeTimeoutFires)

----------------------------------------------------------------------------
(* App focus hook: useAppFocus, with the callbacks Screen hands it *)

\* AppStateStatus values the platforms report
AppStates == {"active", "background", "inactive"}

\* onFocusLost: () => pauseUpdates("focus")
OnFocusLost(state) == pauseUpdates(state, "focus")

\* onFocusGained: () => resumeUpdates("focus")
OnFocusGained(state, waves) == resumeUpdates(state, "focus", waves)

\* what a handler of the hook leaves behind: the focus flag, the callbacks
\* invoked so far and the store
FocusResult(flag, calls, state) == [flag |-> flag, calls |-> calls, state |-> state]

\* handleAppStateChange(nextAppState), the part after appStateRef is written
HandleAppStateChange(wasActive, isActive, r, waves) ==
  IF wasActive /\ ~isActive /\ r.flag
  THEN FocusResult(FALSE, Append(r.calls, "onFocusLost"), OnFocusLost(r.state))
  ELSE IF ~wasActive /\ isActive /\ ~r.flag
  THEN FocusResult(TRUE, Append(r.calls, "onFocusGained"), OnFocusGained(r.state, waves))
  ELSE r

\* the callback handed to useFocusEffect: if (!isFocusedRef.current &&
\* AppState.currentState === "active") { ... onFocusGained?.() }
FocusEffect(r, appState, waves) ==
  IF ~r.flag /\ appState = "active"
  THEN FocusResult(TRUE, Append(r.calls, "onFocusGained"), OnFocusGained(r.state, waves))
  ELSE r

\* the cleanup the callback returns: if (isFocusedRef.current) { ...
\* onFocusLost?.() }
FocusEffectCleanup(r) ==
  IF r.flag
  THEN FocusResult(FALSE, Append(r.calls, "onFocusLost"), OnFocusLost(r.state))
  ELSE r

\* useFocusEffect is handed a new function by every render: the cleanup of
\* the previous one runs if the screen is focused, and so does the new effect
FocusEffectCleanupOnRender(r) == IF navFocused THEN FocusEffectCleanup(r) ELSE r

FocusEffectOnRender(r, waves) ==
  IF navFocused THEN FocusEffect(r, currentState, waves) ELSE r

FocusNow == FocusResult(isFocusedRef, focusCalls, store)

\* the three variables a handler of the hook writes
FocusBecomes(r) ==
  /\ isFocusedRef' = r.flag
  /\ focusCalls' = r.calls
  /\ store' = r.state

\* the operating system moves the app to another state and the listener runs
AppStateChange ==
  \E nextAppState \in AppStates \ {currentState}, waves \in WavesOf(store) :
    /\ Len(focusCalls) < MaxFocusCalls
    /\ fn' = "handleAppStateChange"
    /\ args' = [nextAppState |-> nextAppState]
    /\ ret' = <<>>
    /\ currentState' = nextAppState
    /\ appStateRef' = nextAppState
    /\ FocusBecomes(HandleAppStateChange(appStateRef = "active", nextAppState = "active", FocusNow, waves))
    /\ UNCHANGED <<navFocused, globalUpdateInterval, intervals, scrollVars, rendered>>

\* the user navigates back to the screen: it gains navigation focus and the
\* effect runs
NavigationFocus ==
  \E waves \in WavesOf(store) :
    /\ ~navFocused
    /\ currentState = "active"
    /\ Len(focusCalls) < MaxFocusCalls
    /\ fn' = "focus"
    /\ args' = <<>>
    /\ ret' = <<>>
    /\ navFocused' = TRUE
    /\ FocusBecomes(FocusEffect(FocusNow, currentState, waves))
    /\ UNCHANGED <<appStateRef, currentState, globalUpdateInterval, intervals, scrollVars, rendered>>

\* the user navigates away: the screen loses navigation focus and the cleanup
\* of the effect runs
NavigationBlur ==
  /\ navFocused
  /\ currentState = "active"
  /\ Len(focusCalls) < MaxFocusCalls
  /\ fn' = "blur"
  /\ args' = <<>>
  /\ ret' = <<>>
  /\ navFocused' = FALSE
  /\ FocusBecomes(FocusEffectCleanup(FocusNow))
  /\ UNCHANGED <<appStateRef, currentState, globalUpdateInterval, intervals, scrollVars, rendered>>

\* the component that uses the hook renders again
FocusRerender ==
  \E waves \in WavesOf(store) :
    /\ Len(focusCalls) + 1 < MaxFocusCalls
    /\ fn' = "render"
    /\ args' = <<>>
    /\ ret' = <<>>
    /\ FocusBecomes(FocusEffectOnRender(FocusEffectCleanupOnRender(FocusNow), waves))
    /\ UNCHANGED <<appStateRef, currentState, navFocused, globalUpdateInterval, intervals, scrollVars, rendered>>

InitFocus ==
  /\ fn = "none"
  /\ args = <<>>
  /\ ret = <<>>
  /\ Constructed

NextFocus ==
  \/ AppStateChange
  \/ NavigationFocus
  \/ NavigationBlur
  \/ FocusRerender

SpecFocus == InitFocus /\ [][NextFocus]_vars

----------------------------------------------------------------------------
(* Screen: the store, useAppFocus and useScrollState wired together *)

\* a store field the committed render has read is no longer what the store
\* holds: React renders Screen again before any other event is handled
RenderPending ==
  \/ store.isPaused # rendered.isPaused
  \/ store.isInitialized # rendered.isInitialized

\* the effects of mount have run and no render is pending: the next event,
\* a touch or a timer, is handled
ScreenSettled == store.isInitialized /\ ~RenderPending

\* the effect of mount: if (!isInitialized) initializeTickers(UNIQUE_TICKERS)
ScreenMountEffect ==
  /\ ~store.isInitialized
  /\ InitializeTickersCall(TickerSymbols)
  /\ UNCHANGED otherThanStore

\* the cleanup of the effect on [isPaused, resumeUpdates], run when isPaused
\* has changed, with the isPaused of the render that set the effect up
ScreenPausedCleanup(state, waves) ==
  IF state.isPaused # rendered.isPaused /\ rendered.isPaused
  THEN resumeUpdates(resumeUpdates(state, "scroll", waves), "focus", waves)
  ELSE state

\* the cleanup of the effect of useScrollState on [clearAllTimeouts,
\* onScrollEnd], run at every render because Screen hands the hook a new
\* onScrollEnd each time: if (hasPausedRef.current && onScrollEnd) onScrollEnd()
ScrollCleanup(state, waves) == IF hasPausedRef THEN OnScrollEnd(state, waves) ELSE state

\* Screen renders again and React commits: the cleanups of the effects whose
\* dependencies changed, in the order of the hooks, then the new effects
ScreenRerender ==
  \E waves \in WavesOf(store) :
    /\ RenderPending
    /\ fn' = "render"
    /\ args' = <<>>
    /\ ret' = <<>>
    /\ rendered' = [isInitialized |-> store.isInitialized, isPaused |-> store.isPaused]
    /\ LET cleaned == ScreenPausedCleanup(store, waves)
           blurred == FocusEffectCleanupOnRender(FocusResult(isFocusedRef, focusCalls, cleaned))
           ended == ScrollCleanup(blurred.state, waves)
       IN FocusBecomes(FocusEffectOnRender(FocusResult(blurred.flag, blurred.calls, ended), waves))
    /\ scrollCalls' = IF hasPausedRef THEN Append(scrollCalls, "onScrollEnd") ELSE scrollCalls
    /\ timeouts' = ClearRef(ClearRef(timeouts, pauseTimeoutRef), resumeTimeoutRef)
    /\ pauseTimeoutRef' = NoTimer
    /\ resumeTimeoutRef' = NoTimer
    /\ UNCHANGED <<isScrollingRef, hasPausedRef, gesture, appStateRef, currentState, navFocused, globalUpdateInterval, intervals>>

ScreenIntervalTick == ScreenSettled /\ IntervalTick

ScreenScrollBeginDrag == ScreenSettled /\ OnScrollBeginDrag

ScreenScrollEndDrag == ScreenSettled /\ OnScrollEndDrag

ScreenMomentumScrollEnd == ScreenSettled /\ OnMomentumScrollEnd

ScreenPauseTimeoutFires == ScreenSettled /\ PauseTimeoutFires

ScreenResumeTimeoutFires == ScreenSettled /\ ResumeTimeoutFires

InitScreenSpec ==
  /\ fn = "none"
  /\ args = <<>>
  /\ ret = <<>>
  /\ Constructed

NextScreen ==
  \/ ScreenMountEffect
  \/ ScreenRerender
  \/ ScreenIntervalTick
  \/ ScreenScrollBeginDrag
  \/ ScreenScrollEndDrag
  \/ ScreenMomentumScrollEnd
  \/ ScreenPauseTimeoutFires
  \/ ScreenResumeTimeoutFires

SpecScreen == InitScreenSpec /\ [][NextScreen]_vars

----------------------------------------------------------------------------
(* What the claims about createSegments speak of *)

NumSegments(s) == Len(s.positive) + Len(s.negative)

\* the buckets alternate along the series, the first point's bucket first
Alternates(points, s) ==
  IF Len(points) = 0 THEN NumSegments(s) = 0
  ELSE IF Geq(points[1].value, Zero)
       THEN Len(s.positive) - Len(s.negative) \in {0, 1} /\ Len(s.positive) > 0
       ELSE Len(s.negative) - Len(s.positive) \in {0, 1} /\ Len(s.negative) > 0

\* the segments of both buckets in their order along the series
InOrder(points, s) ==
  [k \in 1..NumSegments(s) |->
     LET isPositive == (k % 2 = 1) = Geq(points[1].value, Zero)
         i == (k + 1) \div 2
     IN [isPositive |-> isPositive,
         points |-> IF isPositive THEN s.positive[i] ELSE s.negative[i]]]

\* position j of the k-th of n segments holds a zero-crossing boundary point
IsBoundary(seg, k, n, j) == (k > 1 /\ j = 1) \/ (k < n /\ j = Len(seg))

\* a segment without its boundary points
Interior(seg, k, n) ==
  SubSeq(seg, IF k > 1 THEN 2 ELSE 1, IF k < n THEN Len(seg) - 1 ELSE Len(seg))

RECURSIVE ConcatInteriors(_, _)
ConcatInteriors(ordered, k) ==
  IF k > Len(ordered) THEN <<>>
  ELSE Interior(ordered[k].points, k, Len(ordered))
         \o ConcatInteriors(ordered, k + 1)

IsSignChange(points, i) ==
  i > 1 /\ Geq(points[i].value, Zero) # Geq(points[i - 1].value, Zero)

\* the positions of the sign changes of a series, ascending
RECURSIVE SignChanges(_, _)
SignChanges(points, i) ==
  IF i > Len(points) THEN <<>>
  ELSE (IF IsSignChange(points, i) THEN <<i>> ELSE <<>>)
         \o SignChanges(points, i + 1)

Called == fn = "createSegments"

\* C1: the segments of both buckets, taken in their order along the series
\* and with the zero-crossing boundary points removed, concatenate to the
\* input sequence
C1_Reconstruction ==
  Called =>
    /\ Alternates(args.points, ret)
    /\ ConcatInteriors(InOrder(args.points, ret), 1) = args.points

\* C1 witness: a series with two crossings whose crossing points are not
\* points of the input
C1_Witness ==
  /\ Called
  /\ NumSegments(ret) = 3
  /\ \A k \in 1..2 :
       LET seg == InOrder(args.points, ret)[k].points
       IN \A i \in DOMAIN args.points : args.points[i] # seg[Len(seg)]

\* C2: apart from the boundary points, which have value 0, the points of a
\* positive segment have value >= 0 and those of a negative segment value < 0
C2_SignPurity ==
  Called =>
    /\ Alternates(args.points, ret)
    /\ LET ordered == InOrder(args.points, ret)
       IN \A k \in DOMAIN ordered :
            LET seg == ordered[k].points
            IN \A j \in DOMAIN seg :
                 IF IsBoundary(seg, k, Len(ordered), j)
                 THEN seg[j].value = Zero
                 ELSE IF ordered[k].isPositive
                      THEN Geq(seg[j].value, Zero)
                      ELSE Lt(seg[j].value, Zero)

\* C2 witness: both buckets are filled and a positive segment holds a point
\* of value 0 that is no boundary point
C2_Witness ==
  /\ Called
  /\ Len(ret.negative) > 0
  /\ \E i \in DOMAIN ret.positive :
       \E j \in DOMAIN ret.positive[i] :
         /\ ret.positive[i][j].value = Zero
         /\ 1 < j /\ j < Len(ret.positive[i])

\* C7: every segment but the last along the series ends with a point of
\* value 0, and the next segment begins with that same point
C7_SharedBoundary ==
  Called =>
    /\ Alternates(args.points, ret)
    /\ LET ordered == InOrder(args.points, ret)
       IN \A k \in DOMAIN ordered :
            k < Len(ordered) =>
              LET seg == ordered[k].points
                  next == ordered[k + 1].points
              IN /\ Len(seg) >= 2
                 /\ seg[Len(seg)].value = Zero
                 /\ next[1] = seg[Len(seg)]
                 /\ seg[Len(seg)] = IntersectionPoint(seg[Len(seg) - 1], next[2])

\* C7 witness: three segments, the middle one shares both its ends
C7_Witness ==
  /\ Called
  /\ NumSegments(ret) >= 3
  /\ \E k \in 1..2 :
       LET seg == InOrder(args.points, ret)[k].points
       IN seg[Len(seg)].timestamp.d > 1

\* C8: there is one boundary per sign change; the boundary of the c-th sign
\* change, between prev and cur, has value 0 and timestamp
\* prev.t + (cur.t - prev.t) * |prev.v| / (|prev.v| + |cur.v|), which lies
\* between prev.t and cur.t when prev.t <= cur.t; the scenario of the
\* specification yields (0.5, 0)
C8_Interpolation ==
  Called =>
    LET points == args.points
        changes == SignChanges(points, 1)
    IN /\ Alternates(points, ret)
       /\ NumSegments(ret) = (IF Len(points) = 0 THEN 0 ELSE Len(changes) + 1)
       /\ \A c \in DOMAIN changes :
            LET prev == points[changes[c] - 1]
                cur == points[changes[c]]
                seg == InOrder(points, ret)[c].points
                x == seg[Len(seg)]
                expected ==
                  Add(prev.timestamp,
                      Div(Mul(Sub(cur.timestamp, prev.timestamp),
                              MathAbs(prev.value)),
                          Add(MathAbs(prev.value), MathAbs(cur.value))))
            IN /\ x.value = Zero
               /\ IsFinite(x.timestamp)
               /\ x.timestamp = expected
               /\ Leq(prev.timestamp, cur.timestamp) =>
                    Leq(prev.timestamp, x.timestamp)
                      /\ Leq(x.timestamp, cur.timestamp)
       /\ points = ScenarioPoints =>
            ret = [negative |-> << <<Point(Num(0), Num(-10)),
                                     Point(Norm(1, 2), Zero)>> >>,
                   positive |-> << <<Point(Norm(1, 2), Zero),
                                     Point(Num(1), Num(10))>> >>]

\* C8 witness: a crossing strictly inside its interval and off its middle
C8_Witness ==
  /\ Called
  /\ \E i \in DOMAIN args.points :
       /\ IsSignChange(args.points, i)
       /\ \E k \in 1..Len(ret.negative) :
            LET seg == ret.negative[k]
                x == seg[Len(seg)]
            IN /\ x.value = Zero
               /\ x.timestamp.d = 3
               /\ Lt(args.points[i - 1].timestamp, x.timestamp)
               /\ Lt(x.timestamp, args.points[i].timestamp)

----------------------------------------------------------------------------
(* What the claims about calculateDomain speak of *)

DomainCalled == fn = "calculateDomain"

\* roundTo > 0 when given
ValidRoundTo(cfg) == cfg.roundTo = Undefined \/ Gt(cfg.roundTo, Zero)

IsInteger(x) == x.d = 1

\* m is the multiple of step next below or at v
IsMultipleBelow(m, v, step) ==
  IsInteger(Div(m, step)) /\ Leq(m, v) /\ Lt(v, Add(m, step))

\* m is the multiple of step next above or at v
IsMultipleAbove(m, v, step) ==
  IsInteger(Div(m, step)) /\ Leq(v, m) /\ Lt(Sub(m, step), v)

\* C3: in percentage mode the domain spans zero
C3_PercentageSpansZero ==
  (DomainCalled /\ args.isPercentage /\ ValidRoundTo(args.niceScaleConfig)) =>
    Leq(ret.domain[1], Zero) /\ Leq(Zero, ret.domain[2])

\* C4: for valid inputs the domain is ordered and the fields min and max
\* are its two bounds
C4_DomainOrdered ==
  (DomainCalled /\ ValidRoundTo(args.niceScaleConfig)) =>
    /\ IsFinite(ret.domain[1]) /\ IsFinite(ret.domain[2])
    /\ Leq(ret.domain[1], ret.domain[2])
    /\ ret.min = ret.domain[1]
    /\ ret.max = ret.domain[2]

\* C4 witness: a fixed step widens a data range that lies strictly inside one
\* step, on a non-percentage axis
C4_Witness ==
  /\ DomainCalled /\ ValidRoundTo(args.niceScaleConfig)
  /\ ~args.isPercentage
  /\ Lt(ret.domain[1], args.minValue)
  /\ Lt(args.maxValue, ret.domain[2])
  /\ Sub(ret.domain[2], ret.domain[1]) = args.niceScaleConfig.roundTo

\* the step of a percentage axis with nice scale, as C9 states it
C9_RoundTo ==
  IF args.niceScaleConfig.method = "fixed"
       /\ args.niceScaleConfig.roundTo # Undefined
  THEN args.niceScaleConfig.roundTo
  ELSE Num(5)

C9_Applies ==
  DomainCalled /\ args.isPercentage /\ args.niceScale /\ Gt(C9_RoundTo, Zero)

\* C9: percentage mode with nice scale and roundTo > 0 gives
\* min = min(0, floor(minValue/roundTo)*roundTo) and
\* max = max(ceil(maxValue/roundTo)*roundTo, floor(minValue/roundTo)*roundTo + roundTo),
\* hence max - min >= roundTo
C9_PercentageNice ==
  C9_Applies =>
    LET r == C9_RoundTo
        lo == Mul(MathFloor(Div(args.minValue, r)), r)
        hi == Mul(MathCeil(Div(args.maxValue, r)), r)
    IN /\ IsMultipleBelow(lo, args.minValue, r)
       /\ IsMultipleAbove(hi, args.maxValue, r)
       /\ ret.min = (IF Lt(lo, Zero) THEN lo ELSE Zero)
       /\ ret.max = (IF Lt(hi, Add(lo, r)) THEN Add(lo, r) ELSE hi)
       /\ ret.domain = <<ret.min, ret.max>>
       /\ Geq(Sub(ret.max, ret.min), r)

\* C9 witness: the rounded maximum lies below floor(minValue/roundTo)*roundTo
\* + roundTo, so the upper bound is the widened one
C9_Witness ==
  /\ C9_Applies
  /\ args.niceScaleConfig.method = "fixed"
  /\ C9_RoundTo = Num(2)
  /\ Lt(Mul(MathCeil(Div(args.maxValue, C9_RoundTo)), C9_RoundTo), ret.max)
  /\ Lt(Zero, args.minValue)

C10_Fixed ==
  args.niceScale /\ args.niceScaleConfig.method = "fixed"
    /\ args.niceScaleConfig.roundTo # Undefined
    /\ args.niceScaleConfig.roundTo # Zero

\* C10 as stated: on a non-percentage axis a fixed non-zero roundTo gives
\* the domain [floor(minValue/roundTo)*roundTo, ceil(maxValue/roundTo)*roundTo],
\* two multiples of roundTo that bracket [minValue, maxValue]; every other
\* case gives [minValue, maxValue]
C10_AsStated ==
  (DomainCalled /\ ~args.isPercentage) =>
    IF C10_Fixed
    THEN LET r == args.niceScaleConfig.roundTo
         IN /\ ret.domain[1] = Mul(MathFloor(Div(args.minValue, r)), r)
            /\ ret.domain[2] = Mul(MathCeil(Div(args.maxValue, r)), r)
            /\ IsInteger(Div(ret.domain[1], r))
            /\ IsInteger(Div(ret.domain[2], r))
            /\ Leq(ret.domain[1], args.minValue)
            /\ Leq(args.maxValue, ret.domain[2])
    ELSE ret.domain = <<args.minValue, args.maxValue>>

\* C10 amended: as stated, the two bounds bracketing [minValue, maxValue]
\* (as the nearest such multiples) when roundTo > 0
C10_Amended ==
  (DomainCalled /\ ~args.isPercentage) =>
    IF C10_Fixed
    THEN LET r == args.niceScaleConfig.roundTo
         IN /\ ret.domain[1] = Mul(MathFloor(Div(args.minValue, r)), r)
            /\ ret.domain[2] = Mul(MathCeil(Div(args.maxValue, r)), r)
            /\ IsInteger(Div(ret.domain[1], r))
            /\ IsInteger(Div(ret.domain[2], r))
            /\ Gt(r, Zero) =>
                 /\ IsMultipleBelow(ret.domain[1], args.minValue, r)
                 /\ IsMultipleAbove(ret.domain[2], args.maxValue, r)
    ELSE ret.domain = <<args.minValue, args.maxValue>>

\* C10 witness: a fixed roundTo of 5 moves both bounds of the data range
C10_Witness ==
  /\ DomainCalled /\ ~args.isPercentage /\ C10_Fixed
  /\ args.niceScaleConfig.roundTo = Num(5)
  /\ Lt(ret.domain[1], args.minValue)
  /\ Lt(args.maxValue, ret.domain[2])
  /\ Lt(args.minValue, Zero) /\ Lt(Zero, args.maxValue)

----------------------------------------------------------------------------
(* What the claims about calculateEvenlySpacedSteps and createScales speak of *)

StepsCalled == fn = "calculateEvenlySpacedSteps"

\* the value the claim gives for the 0-based index i
C5_ValueAt(i) ==
  Sub(args.max,
      Div(Mul(Num(i), Sub(args.max, args.min)), Num(args.count - 1)))

\* C5 as stated, for the counts its formula is defined for (count >= 2):
\* without rounding the result has count values, strictly decreasing, the
\* first max and the last min, the value at index i being
\* max - i*(max-min)/(count-1)
C5_AsStated ==
  (StepsCalled /\ args.roundTo = Null /\ args.count >= 2) =>
    /\ Len(ret) = args.count
    /\ \A i \in 1..(Len(ret) - 1) : Gt(ret[i], ret[i + 1])
    /\ ret[1] = args.max /\ ret[Len(ret)] = args.min
    /\ \A i \in DOMAIN ret : ret[i] = C5_ValueAt(i - 1)

\* C5 amended: for count >= 2 the result has count values, the first max and
\* the last min, the value at index i being max - i*(max-min)/(count-1);
\* they are strictly decreasing when min < max and all equal when min = max;
\* (0, 100, 5, null) gives [100, 75, 50, 25, 0]
C5_Amended ==
  (StepsCalled /\ args.roundTo = Null) =>
    /\ Len(ret) = args.count
    /\ args.count >= 2 =>
         /\ ret[1] = args.max
         /\ ret[Len(ret)] = args.min
         /\ \A i \in DOMAIN ret : ret[i] = C5_ValueAt(i - 1)
         /\ \A i \in 1..(Len(ret) - 1) :
              IF Lt(args.min, args.max) THEN Gt(ret[i], ret[i + 1])
              ELSE ret[i] = ret[i + 1]
    /\ args = ScenarioSteps =>
         ret = <<Num(100), Num(75), Num(50), Num(25), Num(0)>>

\* C5 witness: four unrounded steps over a range the step does not divide
\* into integers
C5_Witness ==
  /\ StepsCalled /\ args.roundTo = Null
  /\ args.count = 4
  /\ Lt(args.min, Zero) /\ Lt(Zero, args.max)
  /\ ret[2].d = 3
  /\ Gt(ret[2], ret[3])

ScalesCalled == fn = "createScales"

\* C6: for a degenerate domain the domain installed on yScale has two finite
\* bounds
C6_DegenerateDomainFinite ==
  (ScalesCalled /\ args.domain[1] = args.domain[2]) =>
    /\ IsFinite(ret.yScale.domain[1])
    /\ IsFinite(ret.yScale.domain[2])

\* the power of ten base with 10*base <= range < 100*base, that is
\* 10^(floor(log10(range)) - 1)
C12_Base(range) ==
  CHOOSE b \in {Pow10(Num(k)) : k \in -3..4} :
    Leq(Mul(Num(10), b), range) /\ Lt(range, Mul(Num(100), b))

\* 10 if range > 50 else 5 on percentage axes, otherwise base*{1,2,5,10}
\* chosen by range/base <= 10, <= 20, <= 50, else
C12_Step(range, isPercentage) ==
  IF isPercentage
  THEN (IF Gt(range, Num(50)) THEN Num(10) ELSE Num(5))
  ELSE LET base == C12_Base(range)
           q == Div(range, base)
       IN IF Leq(q, Num(10)) THEN base
          ELSE IF Leq(q, Num(20)) THEN Mul(Num(2), base)
          ELSE IF Leq(q, Num(50)) THEN Mul(Num(5), base)
          ELSE Mul(Num(10), base)

C13_Top == args.dimensions.verticalPadding

C13_Bottom == Sub(args.dimensions.height, args.dimensions.verticalPadding)

\* the values the scale is probed at: the ends of the domain passed in and
\* the small integers, inside and outside of it
C13_Samples == {args.domain[1], args.domain[2]} \cup GridDomainValues

\* a larger value never maps to a larger pixel y
C13_Monotone ==
  \A u \in C13_Samples : \A v \in C13_Samples :
    Lt(u, v) => Geq(ScaleApply(ret.yScale, u), ScaleApply(ret.yScale, v))

\* C13 as stated: with niceScale off yScale maps domain max to
\* verticalPadding and domain min to height - verticalPadding for every
\* domain, and a larger value never maps to a larger pixel y
C13_AsStated ==
  (ScalesCalled /\ ~args.niceScale) =>
    /\ ScaleApply(ret.yScale, args.domain[2]) = C13_Top
    /\ ScaleApply(ret.yScale, args.domain[1]) = C13_Bottom
    /\ C13_Monotone

\* C13 amended: with niceScale off and height >= 2*verticalPadding, yScale
\* maps domain max to verticalPadding and domain min to
\* height - verticalPadding for every domain with domain[0] < domain[1]; for
\* domain[0] = domain[1] it maps every value to height/2; in both cases a
\* larger value never maps to a larger pixel y
C13_Amended ==
  (/\ ScalesCalled
   /\ ~args.niceScale
   /\ Geq(C13_Bottom, C13_Top)) =>
    /\ Lt(args.domain[1], args.domain[2]) =>
         /\ ScaleApply(ret.yScale, args.domain[2]) = C13_Top
         /\ ScaleApply(ret.yScale, args.domain[1]) = C13_Bottom
    /\ args.domain[1] = args.domain[2] =>
         \A v \in C13_Samples :
           ScaleApply(ret.yScale, v) = Div(args.dimensions.height, Num(2))
    /\ C13_Monotone

\* niceScale off, an ordered domain, and its ends at the top and the bottom
C13_Witness ==
  /\ ScalesCalled
  /\ ~args.niceScale
  /\ Lt(args.domain[1], args.domain[2])
  /\ ScaleApply(ret.yScale, args.domain[2]) = C13_Top
  /\ ScaleApply(ret.yScale, args.domain[1]) = C13_Bottom
  /\ C13_Top # C13_Bottom

----------------------------------------------------------------------------
(* What the claims about useGridCalculations speak of *)

GridCalled == fn = "useGridCalculations"

\* the unrounded tick at index i (from 0): max - i*(max-min)/(count-1) over
\* the two ends of the scale's domain
GridTickAt(i) ==
  LET first == args.scales.yScale.domain[1]
      second == args.scales.yScale.domain[2]
  IN Sub(second, Mul(Num(i), Div(Sub(second, first), Num(args.tickCount - 1))))

\* m is a multiple of r nearest to v
IsNearestMultiple(m, v, r) ==
  IsInteger(Div(m, r)) /\ Leq(MathAbs(Sub(m, v)), Div(MathAbs(r), Num(2)))

\* the roundTo the grid has been given: the configured one with niceScale on
\* and method "fixed", none otherwise
C11_RoundTo ==
  IF args.niceScale /\ args.niceScaleConfig.method = "fixed"
  THEN args.niceScaleConfig.roundTo ELSE Null

\* C11 as stated: a finite tick is left unrounded when roundTo is null,
\* undefined or 0, and is otherwise a nearest multiple of roundTo; so with no
\* roundTo configured the ticks are unrounded also with niceScale on and
\* method "fixed"
C11_AsStated ==
  GridCalled =>
    \A i \in DOMAIN ret.gridValues :
      IsFinite(GridTickAt(i - 1)) =>
        IF C11_RoundTo \in {Null, Undefined, Zero}
        THEN ret.gridValues[i] = GridTickAt(i - 1)
        ELSE IsNearestMultiple(ret.gridValues[i], GridTickAt(i - 1),
                               C11_RoundTo)

\* C11 amended: a finite tick is left unrounded when roundTo is null or 0, is
\* rounded to a nearest integer when roundTo is undefined (the default of 1
\* applies), and is otherwise a nearest multiple of roundTo; so with niceScale
\* on, method "fixed" and no roundTo configured the ticks are rounded to
\* integers, and in every other configuration without roundTo they are
\* unrounded
C11_Amended ==
  GridCalled =>
    \A i \in DOMAIN ret.gridValues :
      IsFinite(GridTickAt(i - 1)) =>
        IF C11_RoundTo \in {Null, Zero}
        THEN ret.gridValues[i] = GridTickAt(i - 1)
        ELSE IF C11_RoundTo = Undefined
        THEN IsNearestMultiple(ret.gridValues[i], GridTickAt(i - 1), Num(1))
        ELSE IsNearestMultiple(ret.gridValues[i], GridTickAt(i - 1),
                               C11_RoundTo)

\* niceScale on, method "fixed", no roundTo, and a tick that rounding moved
C11_Witness ==
  /\ GridCalled
  /\ args.niceScale /\ args.niceScaleConfig.method = "fixed"
  /\ args.niceScaleConfig.roundTo = Undefined
  /\ \E i \in DOMAIN ret.gridValues :
       /\ IsFinite(GridTickAt(i - 1))
       /\ IsInteger(ret.gridValues[i])
       /\ ret.gridValues[i] # GridTickAt(i - 1)

\* the paths of the ticks whose pixel y is finite, in tick order
RECURSIVE FinitePaths(_)
FinitePaths(values) ==
  IF values = <<>> THEN <<>>
  ELSE LET y == ScaleApply(args.scales.yScale, Head(values))
       IN IF IsNumber(y) /\ IsFinite(y)
          THEN <<[moveTo |-> <<args.horizontalPadding, y>>,
                  lineTo |-> <<Sub(args.width, args.horizontalPadding), y>>]>>
                 \o FinitePaths(Tail(values))
          ELSE FinitePaths(Tail(values))

----------------------------------------------------------------------------
(* What the claims about the step calculators around zero speak of *)

FixedCalled == fn = "calculateFixedStepValues"

\* a range divided over half the ticks, rounded to a multiple of roundTo
C16_RoundedStep(range) ==
  Mul(MathRound(Div(Div(range, Num(args.tickCount \div 2)), args.roundTo)),
      args.roundTo)

\* the skip-zero heuristic: the rounded negative step is at most half the
\* rounded positive step
C16_SkipZeroTriggers ==
  Leq(C16_RoundedStep(MathAbs(args.min)),
      Div(C16_RoundedStep(args.max), Num(2)))

\* C16: when the skip-zero heuristic triggers, the result for roundTo > 0 is
\* calculateEvenlySpacedSteps(min, max, tickCount, roundTo) element by
\* element: tickCount values, each a multiple of roundTo, for two ticks or
\* more the first the multiple nearest to max and the last the multiple
\* nearest to min, never increasing
C16_SkipZeroIsEvenlySpaced ==
  (FixedCalled /\ C16_SkipZeroTriggers /\ Gt(args.roundTo, Zero)) =>
    /\ ret = calculateEvenlySpacedSteps(args.min, args.max, args.tickCount,
                                        args.roundTo)
    /\ Len(ret) = args.tickCount
    /\ args.tickCount >= 2 =>
         /\ \A i \in DOMAIN ret : IsInteger(Div(ret[i], args.roundTo))
         /\ IsNearestMultiple(ret[1], args.max, args.roundTo)
         /\ IsNearestMultiple(ret[Len(ret)], args.min, args.roundTo)
         /\ \A i \in 1..(Len(ret) - 1) : Geq(ret[i], ret[i + 1])

\* the heuristic triggers on a range with a small negative part, and the
\* ticks go from above zero to below zero without a tick at zero
C16_Witness ==
  /\ FixedCalled
  /\ C16_SkipZeroTriggers
  /\ args.tickCount >= 3
  /\ Lt(args.min, Zero)
  /\ Lt(ret[Len(ret)], Zero)
  /\ \A i \in DOMAIN ret : ret[i] # Zero

\* C17: when the skip-zero heuristic does not trigger and tickCount >= 2, the
\* result has exactly tickCount values in ascending order, of the form
\* [-k*negStep, ..., -negStep, 0, posStep, ..., m*posStep] with
\* k = (tickCount-2)/2 and m = tickCount/2 for even tickCount and
\* k = m = floor(tickCount/2) for odd tickCount
C17_ZeroCentredAscending ==
  (FixedCalled /\ ~C16_SkipZeroTriggers /\ args.tickCount >= 2) =>
    LET negStep == C16_RoundedStep(MathAbs(args.min))
        posStep == C16_RoundedStep(args.max)
        k == IF args.tickCount % 2 = 0 THEN (args.tickCount - 2) \div 2
             ELSE args.tickCount \div 2
        m == args.tickCount \div 2
    IN /\ Len(ret) = args.tickCount
       /\ Len(ret) = k + 1 + m
       /\ \A j \in 1..k : ret[k + 1 - j] = Neg(Mul(Num(j), negStep))
       /\ ret[k + 1] = Zero
       /\ \A j \in 1..m : ret[k + 1 + j] = Mul(Num(j), posStep)
       /\ \A i \in 1..(Len(ret) - 1) : Leq(ret[i], ret[i + 1])

AutoCalled == fn = "calculateAutoStepValues"

\* C18: for min <= 0 <= max and tickCount >= 3 the result has exactly
\* tickCount values in ascending order, 0 among them, the smallest min and the
\* largest max, the ticks before 0 multiples of one negative step and the
\* ticks after 0 multiples of one positive step
C18_AutoSpansRange ==
  (/\ AutoCalled
   /\ Leq(args.min, Zero) /\ Leq(Zero, args.max)
   /\ args.tickCount >= 3) =>
    /\ Len(ret) = args.tickCount
    /\ \A i \in 1..(Len(ret) - 1) : Leq(ret[i], ret[i + 1])
    /\ \E z \in DOMAIN ret :
         /\ ret[z] = Zero
         /\ \A i \in 1..(z - 1) :
              ret[i] = Mul(Num(z - i), ret[z - 1])
         /\ \A i \in (z + 1)..Len(ret) :
              ret[i] = Mul(Num(i - z), ret[z + 1])
    /\ ret[1] = args.min
    /\ ret[Len(ret)] = args.max

\* an even tick count over a range with both signs: more ticks above zero
\* than below, the ends at min and max
C18_Witness ==
  /\ AutoCalled
  /\ Lt(args.min, Zero) /\ Lt(Zero, args.max)
  /\ args.tickCount = 4
  /\ Len(ret) = 4
  /\ ret[1] = args.min /\ ret[2] = Zero /\ ret[4] = args.max

----------------------------------------------------------------------------
(* What the claims about the path builder speak of *)

AreaCalled == fn = "createAreaPath"

PathCalled == fn \in {"createLinePath", "createAreaPath"}

\* a style whose entry in the table of curve factories is looked up as an
\* own entry or is missing: the styles of the enum, an omitted style, and
\* names no object has
C19_PlainStyle == args.lineStyle \notin ObjectPrototypeKeys

\* C19: for every non-empty point sequence the path built by createAreaPath
\* has the constant pixel yScale(0) as its lower boundary and maps each point
\* to (xScale(timestamp), yScale(value)) on its upper boundary, also when 0
\* lies outside the y-domain
C19_AreaBaselineAtZero ==
  (AreaCalled /\ Len(args.points) > 0 /\ C19_PlainStyle) =>
    /\ ret.path.kind = "area"
    /\ ret.path.y0 = ScaleApply(args.scales.yScale, Zero)
    /\ Len(ret.path.points) = Len(args.points)
    /\ \A i \in DOMAIN args.points :
         ret.path.points[i] =
           <<ScaleApply(args.scales.xScale, args.points[i].timestamp),
             ScaleApply(args.scales.yScale, args.points[i].value)>>

\* a series entirely positive under a domain above zero: the lower boundary
\* is below the pixel of the domain minimum
C19_Witness ==
  /\ AreaCalled
  /\ Len(args.points) = MaxPathLen
  /\ \A i \in DOMAIN args.points : Gt(args.points[i].value, Zero)
  /\ Gt(args.scales.yScale.domain[1], Zero)
  /\ Lt(args.scales.yScale.domain[1], args.scales.yScale.domain[2])
  /\ ret.path.kind = "area"
  /\ Gt(ret.path.y0,
        ScaleApply(args.scales.yScale, args.scales.yScale.domain[1]))

\* the curve each supported style selects
C20_OwnCurve(lineStyle) ==
  CASE lineStyle = "linear" -> "curveLinear"
    [] lineStyle = "natural" -> "curveNatural"
    [] lineStyle = "catmull" -> "curveCatmullRom"
    [] lineStyle = "monotone" -> "curveMonotoneX"
    [] lineStyle = "step" -> "curveStep"

\* what the called function returns for the CatmullRom style
C20_CatmullRomPath ==
  IF fn = "createLinePath"
  THEN createLinePath(args.points, args.scales, "catmull").path
  ELSE createAreaPath(args.points, args.scales, "catmull").path

\* C20: createLinePath and createAreaPath never fail; a style value outside
\* {linear, natural, catmull, monotone, step} gives the path of the CatmullRom
\* style, with a warning when there are points to draw; each supported style
\* selects its own curve
C20_UnknownStyleFallsBack ==
  (PathCalled /\ args.lineStyle # "undefined") =>
    /\ ret.path # TypeError
    /\ args.lineStyle \notin GraphLineStyles =>
         /\ ret.path = C20_CatmullRomPath
         /\ Len(args.points) > 0 => ret.warned
    /\ (args.lineStyle \in GraphLineStyles /\ Len(args.points) > 0) =>
         ret.path.curve = C20_OwnCurve(args.lineStyle)

----------------------------------------------------------------------------
(* What the claims about useSeriesData speak of *)

SeriesDataCalled == fn = "useSeriesData"

\* an empty series list, or series that have no points
C15_EmptyInput == \A i \in DOMAIN args.series : Len(args.series[i].points) = 0

\* C15: for empty input every curve and area path is null, the gridline path
\* array is empty and the tick value array is empty
C15_EmptyInputEmptyResults ==
  (SeriesDataCalled /\ C15_EmptyInput) =>
    /\ \A i \in DOMAIN ret.seriesData :
         /\ ret.seriesData[i].curvePath = NoPath
         /\ ret.seriesData[i].areaPath = NoPath
         /\ ret.seriesData[i].curveValuePath.positive = NoPath
         /\ ret.seriesData[i].curveValuePath.negative = NoPath
         /\ ret.seriesData[i].areaValuePath.positive = NoPath
         /\ ret.seriesData[i].areaValuePath.negative = NoPath
    /\ ret.gridLinePaths = <<>>
    /\ ret.gridValues = <<>>

----------------------------------------------------------------------------
(* What the claims about combining sub-paths speak of *)

ReduceCalled == fn = "reduce"

IsSubPath(path) == path # NoPath

\* the contours of a combined result, in order
ContoursOf(path) ==
  IF path = NoPath THEN <<>>
  ELSE IF path.kind = "combined" THEN path.parts
  ELSE <<path>>

\* C21: combining the sub-paths of one sign gives null exactly when every
\* sub-path is null or there are none; otherwise the result holds every
\* non-null sub-path exactly once, in segment order, the null ones skipped
\* wherever they stand.
C21_CombinedSubPaths ==
  ReduceCalled =>
    /\ (ret = NoPath) <=> (\A i \in DOMAIN args.paths : args.paths[i] = NoPath)
    /\ ContoursOf(ret) = SelectSeq(args.paths, IsSubPath)

\* nulls before, between and after the sub-paths that are combined
C21_Witness ==
  /\ ReduceCalled
  /\ Len(args.paths) = 4
  /\ args.paths[1] = NoPath
  /\ args.paths[2] # NoPath
  /\ args.paths[3] = NoPath
  /\ args.paths[4] # NoPath
  /\ ret = [kind |-> "combined", parts |-> <<args.paths[2], args.paths[4]>>]

----------------------------------------------------------------------------
(* What the claims about the ticker store speak of *)

\* C22: in every state the store reaches by pauseUpdates and resumeUpdates
\* calls, whatever their reasons and their order, isPaused holds exactly when
\* pauseReasons is not empty; and one resumeUpdates(r) clears r, however
\* often r was paused before.
C22_PausedIffReasons ==
  /\ store.isPaused <=> (store.pauseReasons # {})
  /\ fn = "resumeUpdates" => ReasonOf(args.reason) \notin store.pauseReasons

\* a resume that leaves the store paused for another reason
C22_Witness ==
  /\ fn = "resumeUpdates"
  /\ args.reason = "scroll"
  /\ store.pauseReasons = {"focus"}
  /\ store.isPaused

\* C23: after any sequence of initializeTickers and cleanupTickerStore calls
\* at most one update interval is running, the one globalUpdateInterval
\* holds, and after cleanupTickerStore none is.
C23_OneInterval ==
  /\ Cardinality(intervals) <= 1
  /\ intervals = IF globalUpdateInterval = NoTimer THEN {} ELSE {globalUpdateInterval}
  /\ fn = "cleanupTickerStore" => intervals = {}

\* a second initializeTickers has cleared the interval of the first
C23_Witness ==
  /\ fn = "initializeTickers"
  /\ ret.cleared # NoTimer
  /\ Cardinality(intervals) = 1

TickerDataOf(state, waves) == updateTickerData(state, waves).tickerData

\* C24: while pauseReasons is not empty, neither an interval tick nor a
\* resumeUpdates call that leaves a reason in place changes tickerData; the
\* resumeUpdates call that empties pauseReasons of an initialized store, and
\* a tick of the unpaused store, write updated data.
C24_PausedDataUnchanged ==
  [][/\ (/\ store.pauseReasons # {}
         /\ \/ fn' = "tick"
            \/ fn' = "resumeUpdates" /\ store'.pauseReasons # {})
        => store'.tickerData = store.tickerData
     /\ (/\ \/ fn' = "tick" /\ store.pauseReasons = {}
            \/ fn' = "resumeUpdates" /\ store'.pauseReasons = {} /\ store.isInitialized)
        => \E waves \in WavesOf(store) : store'.tickerData = TickerDataOf(store, waves)]_vars

\* an interval has fired on a paused store that holds tickers
C24_Witness ==
  /\ fn = "tick"
  /\ store.pauseReasons # {}
  /\ store.isInitialized
  /\ DOMAIN store.tickerData = TickerSymbols

\* C25: for every ticker, after initializeTickers and any number of
\* updateTickerData calls, 1000 <= mcap <= ath, 0 < progress <= 100 with
\* progress = mcap / ath * 100, and ath, tokenName, createdAt and isLoading are
\* what initializeTickers stored.
C25_TickerBounds ==
  \A t \in DOMAIN store.tickerData :
    LET data == store.tickerData[t]
    IN /\ Leq(Num(1000), data.mcap)
       /\ Leq(data.mcap, data.ath)
       /\ Lt(Zero, data.progress)
       /\ Leq(data.progress, Num(100))
       /\ data.progress = Mul(Div(data.mcap, data.ath), Num(100))
       /\ data.ath = InitialTickerData(t).ath
       /\ data.tokenName = InitialTickerData(t).tokenName
       /\ data.createdAt = InitialTickerData(t).createdAt
       /\ data.isLoading = InitialTickerData(t).isLoading

\* an update has met the floor of 1000 for one ticker and not for the other
C25_Witness ==
  /\ fn = "updateTickerData"
  /\ DOMAIN store.tickerData = TickerSymbols
  /\ store.tickerData["WIF"].mcap = Num(1000)
  /\ Lt(store.tickerData["BONK"].mcap, InitialTickerData("BONK").mcap)

----------------------------------------------------------------------------
(* What the claims about useScrollState speak of *)

\* C27: under every interleaving of drags, momentum ends and timeout firings,
\* the calls of onScrollStart and onScrollEnd alternate, onScrollStart first:
\* onScrollStart is never called twice with no onScrollEnd between.
C27_CallsAlternate ==
  \A i \in DOMAIN scrollCalls :
    scrollCalls[i] = IF i % 2 = 1 THEN "onScrollStart" ELSE "onScrollEnd"

\* onScrollStart has been called and scrolling has stopped
ScrollStartedAndStopped ==
  /\ scrollCalls # <<>>
  /\ scrollCalls[Len(scrollCalls)] = "onScrollStart"
  /\ gesture = "idle"

\* C28: whenever onScrollStart has been called and scrolling then stops with no
\* further drag, onScrollEnd is called in the end, whether the drag ended with
\* momentum or without.
C28_EndFollowsStart == ScrollStartedAndStopped ~> ~ScrollStartedAndStopped

----------------------------------------------------------------------------
(* What the claims about useAppFocus speak of *)

FocusEventHandled == fn \in {"handleAppStateChange", "focus", "blur"}

\* C29: after every app-state change and every navigation focus or blur is
\* handled, the focus flag is true exactly when the app is active and the
\* screen has navigation focus; so onFocusLost and onFocusGained alternate,
\* onFocusLost first, and onFocusGained is never called while the app is in
\* the background or the screen is without focus.
C29_FlagTracksFocus ==
  /\ FocusEventHandled => (isFocusedRef <=> (currentState = "active" /\ navFocused))
  /\ \A i \in DOMAIN focusCalls :
       focusCalls[i] = IF i % 2 = 1 THEN "onFocusLost" ELSE "onFocusGained"
  /\ (FocusEventHandled /\ focusCalls # <<>> /\ focusCalls[Len(focusCalls)] = "onFocusGained")
       => (currentState = "active" /\ navFocused)

----------------------------------------------------------------------------
(* What the claims about Screen speak of *)

\* C26: once onScrollStart has added the "scroll" pause reason, the reason
\* stays in pauseReasons until the resume timeout fires, resumeDelay after
\* onMomentumScrollEnd, also across the renders of Screen that the pause
\* causes.
C26_ScrollPauseLasts ==
  [][("scroll" \in store.pauseReasons /\ "scroll" \notin store'.pauseReasons)
       => fn' = "resumeTimeout"]_vars

----------------------------------------------------------------------------
(* What the claims about the value domain of a chart speak of *)

ExtentCalled == fn = "scales"

\* the pixel y of a data value lies between the top and the bottom padding
InsidePlot(y) ==
  /\ IsNumber(y)
  /\ Leq(ExampleDimensions.verticalPadding, y)
  /\ Leq(y, Sub(ExampleDimensions.height, ExampleDimensions.verticalPadding))

\* C30: for data with minValue < maxValue and every combination of niceScale,
\* method (roundTo > 0 when given) and isPercentage, the y-domain [lo, hi] that
\* calculateDomain and the domain adjustment of createScales arrive at has
\* lo <= minValue and maxValue <= hi, also after the nice() of method "auto",
\* so the scale maps no data value outside [verticalPadding, height -
\* verticalPadding].
C30_DomainContainsData ==
  ExtentCalled =>
    /\ Leq(ret.yScale.domain[1], args.minValue)
    /\ Leq(args.maxValue, ret.yScale.domain[2])
    /\ Leq(ApplyNice(ret.yScale).domain[1], args.minValue)
    /\ Leq(args.maxValue, ApplyNice(ret.yScale).domain[2])
    /\ InsidePlot(ScaleApply(ApplyNice(ret.yScale), args.minValue))
    /\ InsidePlot(ScaleApply(ApplyNice(ret.yScale), args.maxValue))

\* data whose extent calculateDomain widens to [-10, 5] and the adjustment
\* of createScales to [-10, 6]
C30_Witness ==
  /\ ExtentCalled
  /\ args.niceScale
  /\ ~args.isPercentage
  /\ args.niceScaleConfig.method = "fixed"
  /\ args.niceScaleConfig.roundTo = Num(5)
  /\ args.minValue = Norm(-11, 2)
  /\ args.maxValue = Num(1)
  /\ ret.yScale.domain = <<Num(-10), Num(6)>>

=============================================================================
